---- MODULE Spec2Model ----
(***************************************************************************)
(* A model of the NGO project API: the authentication / authorization      *)
(* middleware chain and the resource handlers of /users, /donations,       *)
(* /projects and /events, run against one shared document store.           *)
(*                                                                         *)
(* A handler is a sequence of store calls.  Each store call is atomic; the *)
(* synchronous code between two awaits runs together with the store call   *)
(* it follows.  A handler with several store calls occupies a request slot *)
(* (req[r]) between its calls, so that other requests interleave; a        *)
(* handler with a single store call (the DELETE handlers) is one action    *)
(* and leaves its response in `direct`.                                    *)
(*                                                                         *)
(* Encodings.  A JSON body is a function from the names of the fields it   *)
(* carries to their values: a field that is absent (undefined) is not in   *)
(* its DOMAIN.  Strings that are trimmed are sequences of one-character    *)
(* strings.  Identifiers are integers: a positive integer is a well-formed *)
(* ObjectId, BadId is a string that is no ObjectId.  Dates are integers on *)
(* the axis of the clock `now`.  An error message is a sequence of         *)
(* strings: one element for a handler's own message, one per failed path   *)
(* for a ValidationError (the handler joins them with ", ").               *)
(***************************************************************************)
EXTENDS Integers, Sequences, FiniteSets, TLC

VARIABLES
    users,      \* the User collection: _id -> document
    donations,  \* the Donation collection: _id -> document
    projects,   \* the Project collection: _id -> document
    events,     \* the Event collection: _id -> document
    nextId,     \* per collection, the next ObjectId the driver generates
    now,        \* Date.now()
    req,        \* the requests in flight, one per slot
    direct      \* the response of the last single-call handler

vars == <<users, donations, projects, events, nextId, now, req, direct>>

-----------------------------------------------------------------------------
(* Bounds of the model *)

\* The clock stops ticking at MaxClock.
MaxClock == 1

\* At most MaxDocs donations, projects and events are ever created.
MaxDocs == 2

\* The driver generates the user identifiers up to MaxUsers.
MaxUsers == 4

\* The donations, projects and events created so far (identifiers start at 1).
Created == (nextId.donation - 1) + (nextId.project - 1) + (nextId.event - 1)

-----------------------------------------------------------------------------
(* Values *)

\* 'invalid-id': a string for which mongoose.Types.ObjectId.isValid is false.
BadId == 0

IsValidObjectId(x) == x \in Nat /\ x # BadId

\* null, as a response body or a query result.
Null == [null |-> TRUE]

Has(b, f) == f \in DOMAIN b

\* JavaScript's !x for a number, a string of characters and an identifier.
FalsyNum(b, f) == ~Has(b, f) \/ b[f] = 0
FalsyStr(b, f) == ~Has(b, f) \/ b[f] = << >>
FalsyId(b, f) == ~Has(b, f)
\* ... and for a string that is compared with the values of an enum.
FalsyEnum(b, f) == ~Has(b, f) \/ b[f] = ""

\* String.prototype.trim
RECURSIVE TrimLeft(_)
TrimLeft(s) == IF s # << >> /\ Head(s) = " " THEN TrimLeft(Tail(s)) ELSE s

RECURSIVE TrimRight(_)
TrimRight(s) ==
    IF s # << >> /\ s[Len(s)] = " " THEN TrimRight(SubSeq(s, 1, Len(s) - 1)) ELSE s

Trim(s) == TrimRight(TrimLeft(s))

\* Number(x) of a JSON number.
Number(x) == x

\* An update's $set: the fields of u overwrite those of d, the others stay.
SetFields(d, u) ==
    [f \in DOMAIN d \cup DOMAIN u |-> IF f \in DOMAIN u THEN u[f] ELSE d[f]]

\* A collection with document d stored under id.
Put(coll, id, d) ==
    [i \in DOMAIN coll \cup {id} |-> IF i = id THEN d ELSE coll[i]]

\* A collection without the document id.
Remove(coll, id) == [i \in DOMAIN coll \ {id} |-> coll[i]]

\* Model.findById: the document, or null.
FindById(coll, id) == IF id \in DOMAIN coll THEN coll[id] ELSE Null

\* The concatenation of a sequence of sequences.
RECURSIVE ConcatAll(_)
ConcatAll(ss) == IF ss = << >> THEN << >> ELSE Head(ss) \o ConcatAll(Tail(ss))

\* `this` inside a validator that runs for an update (runValidators: true):
\* not the document, so every this.<path> is undefined.  A validator that
\* runs for save() has the document as `this`.
NoThis == << >>

\* x > this[f] and x < this[f]: a comparison with undefined is false.
After(x, self, f) == Has(self, f) /\ x > self[f]
Before(x, self, f) == Has(self, f) /\ x < self[f]

-----------------------------------------------------------------------------
(* Requests *)

NoUser == [none |-> TRUE]
NoToken == [kind |-> "none"]
NoBody == << >>

Idle ==
    [op |-> "", pc |-> "idle", id |-> BadId, body |-> NoBody, token |-> NoToken,
     user |-> NoUser, nexts |-> 0, calls |-> {}, doc |-> Null, saved |-> BadId,
     status |-> 0, msg |-> << >>, data |-> Null, thrown |-> Null]

\* A slot is free before its first request and after a response.
Free(r) == req[r].pc \in {"idle", "done"}

\* res.status(s).json({error: m}): the request ends with an error response.
Fail(q, s, m) == [q EXCEPT !.pc = "done", !.status = s, !.msg = <<m>>]

\* The catch branch for a ValidationError: the messages of all failed paths.
FailValidation(q, ms) == [q EXCEPT !.pc = "done", !.status = 400, !.msg = ms]

\* res.status(s).json(d): the request ends with a document.
Succeed(q, s, d) == [q EXCEPT !.pc = "done", !.status = s, !.data = d]

\* Mutant: a catch whose last branch answers with the text of the error.
Caught_Surfaced(e, m) == [status |-> 500, msg |-> <<e.message>>, thrown |-> e]

\* The last branch of a catch, for the error e that is none of those the
\* branches before it test: console.error(e), then res.status(500) with the
\* handler's own message m.
Caught(e, m) == [status |-> 500, msg |-> <<m>>, thrown |-> e]

\* The request issued the store call c.
Called(q, c) == [q EXCEPT !.calls = @ \cup {c}]

Protected == {"POST /projects", "PUT /projects", "POST /events", "PUT /events"}

\* A request arrives: express routes it to the first function of its chain.
Arrive(r, op, id, body, token) ==
    /\ Free(r)
    /\ req' = [req EXCEPT ![r] =
                [Idle EXCEPT !.op = op, !.id = id, !.body = body, !.token = token,
                             !.pc = IF op \in Protected THEN "auth" ELSE "handler"]]
    /\ UNCHANGED <<users, donations, projects, events, nextId, now, direct>>

\* Time passes.
Tick ==
    /\ now < MaxClock
    /\ now' = now + 1
    /\ UNCHANGED <<users, donations, projects, events, nextId, req, direct>>

-----------------------------------------------------------------------------
(* Authentication and authorization middleware *)

\* Mutant: jwt.verify with ignoreExpiration.
JwtVerify_IgnoreExpiration(t) ==
    CASE t.kind = "badsig" -> "JsonWebTokenError"
      [] OTHER -> "ok"

\* jwt.verify(token, secret): the signature is checked before the expiry.
JwtVerify(t) ==
    CASE t.kind = "badsig" -> "JsonWebTokenError"
      [] t.kind = "expired" -> "TokenExpiredError"
      [] OTHER -> "ok"

\* Mutant: authenticateToken without the lookup of the user; the principal is
\* taken from the token's payload.
Authenticated_Stale(q, us) ==
    LET t == q.token
    IN  IF t.kind = "none" THEN Fail(q, 401, "Access token required")
        ELSE IF JwtVerify(t) = "JsonWebTokenError" THEN Fail(q, 403, "Invalid token")
        ELSE IF JwtVerify(t) = "TokenExpiredError" THEN Fail(q, 403, "Token expired")
        ELSE [q EXCEPT !.user = [userId |-> t.userId, email |-> << >>,
                                 role |-> "admin"],
                       !.nexts = @ + 1,
                       !.pc = "authz"]

\* Mutant: authenticateToken that takes the role the user had when the token
\* was issued, as if the role were part of the token's payload.
Authenticated_IssuedRole(q, us) ==
    LET t == q.token
        user == FindById(us, t.userId)
        looked == Called(q, "auth: User.findById")
    IN  IF t.kind = "none" THEN Fail(q, 401, "Access token required")
        ELSE IF JwtVerify(t) = "JsonWebTokenError" THEN Fail(q, 403, "Invalid token")
        ELSE IF JwtVerify(t) = "TokenExpiredError" THEN Fail(q, 403, "Token expired")
        ELSE IF user = Null THEN Fail(looked, 401, "User no longer exists")
        ELSE [looked EXCEPT !.user = [userId |-> t.userId, email |-> user.email,
                                      role |-> IF t.userId = 1 THEN "admin"
                                               ELSE IF t.userId = 2 THEN "volunteer"
                                               ELSE "donor"],
                            !.nexts = @ + 1,
                            !.pc = "authz"]

\* authenticateToken, on request q with the User collection us.
Authenticated(q, us) ==
    LET t == q.token
        user == FindById(us, t.userId)
        looked == Called(q, "auth: User.findById")
    IN  IF t.kind = "none" THEN Fail(q, 401, "Access token required")
        ELSE IF JwtVerify(t) = "JsonWebTokenError" THEN Fail(q, 403, "Invalid token")
        ELSE IF JwtVerify(t) = "TokenExpiredError" THEN Fail(q, 403, "Token expired")
        ELSE IF user = Null THEN Fail(looked, 401, "User no longer exists")
        ELSE [looked EXCEPT !.user = [userId |-> t.userId, email |-> user.email,
                                      role |-> user.role],
                            !.nexts = @ + 1,
                            !.pc = "authz"]

authenticateToken(r) ==
    /\ req[r].pc = "auth"
    /\ req' = [req EXCEPT ![r] = Authenticated(req[r], users)]
    /\ UNCHANGED <<users, donations, projects, events, nextId, now, direct>>

\* Mutant: requireAdminOrManager that lets every role pass.
Authorized_AnyRole(q) == [q EXCEPT !.nexts = @ + 1, !.pc = "handler"]

\* requireAdminOrManager, on request q.
Authorized(q) ==
    IF q.user.role # "admin" /\ q.user.role # "volunteer"
    THEN Fail(q, 403, "Admin or volunteer access required")
    ELSE [q EXCEPT !.nexts = @ + 1, !.pc = "handler"]

requireAdminOrManager(r) ==
    /\ req[r].pc = "authz"
    /\ req' = [req EXCEPT ![r] = Authorized(req[r])]
    /\ UNCHANGED <<users, donations, projects, events, nextId, now, direct>>

-----------------------------------------------------------------------------
(* /users *)

\* A response of a handler that makes a single store call.
Direct(op, id, s, m, d) ==
    [op |-> op, id |-> id, status |-> s, msg |-> m, data |-> d, thrown |-> Null]

\* Mutant: router.delete('/:id') of users that dereferences the result of
\* findByIdAndDelete before it tests it; the TypeError ends in the 500 branch.
DeleteUser_Throw(id) ==
    /\ IF ~IsValidObjectId(id)
       THEN /\ direct' = Direct("DELETE /users", id, 400, <<"Invalid user ID">>, Null)
            /\ UNCHANGED users
       ELSE IF id \notin DOMAIN users
       THEN /\ direct' = Direct("DELETE /users", id, 500, <<"Failed to delete user">>, Null)
            /\ UNCHANGED users
       ELSE /\ direct' = Direct("DELETE /users", id, 200, << >>, users[id])
            /\ users' = Remove(users, id)
    /\ UNCHANGED <<donations, projects, events, nextId, now, req>>

\* Mutant: router.delete('/:id') of users that also deletes the donations of
\* the user.
DeleteUser_Cascade(id) ==
    /\ IF ~IsValidObjectId(id)
       THEN /\ direct' = Direct("DELETE /users", id, 400, <<"Invalid user ID">>, Null)
            /\ UNCHANGED <<users, donations>>
       ELSE IF id \notin DOMAIN users
       THEN /\ direct' = Direct("DELETE /users", id, 404, <<"User not found">>, Null)
            /\ UNCHANGED <<users, donations>>
       ELSE /\ direct' = Direct("DELETE /users", id, 200, << >>, users[id])
            /\ users' = Remove(users, id)
            /\ donations' = [i \in {j \in DOMAIN donations : donations[j].donorId # id}
                               |-> donations[i]]
    /\ UNCHANGED <<projects, events, nextId, now, req>>

\* router.delete('/:id') of users: User.findByIdAndDelete.
DeleteUser(id) ==
    /\ IF ~IsValidObjectId(id)
       THEN /\ direct' = Direct("DELETE /users", id, 400, <<"Invalid user ID">>, Null)
            /\ UNCHANGED users
       ELSE IF id \notin DOMAIN users
       THEN /\ direct' = Direct("DELETE /users", id, 404, <<"User not found">>, Null)
            /\ UNCHANGED users
       ELSE /\ direct' = Direct("DELETE /users", id, 200, << >>, users[id])
            /\ users' = Remove(users, id)
    /\ UNCHANGED <<donations, projects, events, nextId, now, req>>

UserRoles == {"donor", "volunteer", "admin"}

\* String.prototype.toLowerCase, on the letters the requests use.
LowerChar(c) == CASE c = "A" -> "a" [] c = "B" -> "b" [] OTHER -> c
ToLowerCase(s) == [i \in 1..Len(s) |-> LowerChar(s[i])]

\* The User schema's validators, on the paths of d: name and email are
\* required strings, role is one of the enum.
UserErrors(d) ==
    (IF Has(d, "name") /\ d.name = << >> THEN <<"Name is required">> ELSE << >>)
    \o (IF Has(d, "email") /\ d.email = << >> THEN <<"Email is required">> ELSE << >>)

\* The unique index on email: another document than id holds the email e.
EmailTaken(us, e, id) == \E u \in DOMAIN us : u # id /\ us[u].email = e

\* User.findOne({ email: e, _id: { $ne: id } })
FindOneByEmail(us, e, id) ==
    IF \E u \in DOMAIN us : u # id /\ us[u].email = e
    THEN us[CHOOSE u \in DOMAIN us : u # id /\ us[u].email = e]
    ELSE Null

\* The checks at the top of router.post('/') and router.put('/:id') of users:
\* the error message, or no message.
UserBodyError(b) ==
    IF FalsyStr(b, "name") \/ FalsyStr(b, "email") \/ FalsyEnum(b, "role")
    THEN <<"Missing required fields: name, email, and role are required">>
    ELSE IF b.role \notin UserRoles
    THEN <<"Invalid role. Role must be either donor, volunteer, or admin">>
    ELSE << >>

\* Mutant: new User({...}) that keeps the email's case.
NewUser_KeepCase(b) == [name |-> Trim(b.name), email |-> Trim(b.email), role |-> b.role]

\* new User({...}) of router.post('/'), and the update of router.put('/:id').
NewUser(b) ==
    [name |-> Trim(b.name), email |-> Trim(ToLowerCase(b.email)), role |-> b.role]

\* router.post('/') of users, up to the answer of User.findOne.
UserChecked(q, us) ==
    LET b == q.body
        looked == Called(q, "User.findOne")
    IN  IF UserBodyError(b) # << >> THEN FailValidation(q, UserBodyError(b))
        ELSE IF FindOneByEmail(us, ToLowerCase(b.email), BadId) # Null
        THEN Fail(looked, 400, "User with this email already exists")
        ELSE [looked EXCEPT !.doc = NewUser(b), !.pc = "save"]

PostUser_Check(r) ==
    /\ req[r].op = "POST /users"
    /\ req[r].pc = "handler"
    /\ req' = [req EXCEPT ![r] = UserChecked(req[r], users)]
    /\ UNCHANGED <<users, donations, projects, events, nextId, now, direct>>

\* user.save() of router.post('/'), and the catch branch.
PostUser_Save(r) ==
    LET q == Called(req[r], "User.save")
        id == nextId.user
    IN  /\ req[r].op = "POST /users"
        /\ req[r].pc = "save"
        /\ (UserErrors(q.doc) = << >> /\ ~EmailTaken(users, q.doc.email, BadId))
              => id <= MaxUsers
        /\ IF UserErrors(q.doc) # << >>
           THEN /\ req' = [req EXCEPT ![r] = FailValidation(q, UserErrors(q.doc))]
                /\ UNCHANGED <<users, nextId>>
           ELSE IF EmailTaken(users, q.doc.email, BadId)
           THEN /\ req' = [req EXCEPT ![r] = Fail(q, 400, "Email already exists")]
                /\ UNCHANGED <<users, nextId>>
           ELSE /\ users' = Put(users, id, q.doc)
                /\ nextId' = [nextId EXCEPT !.user = @ + 1]
                /\ req' = [req EXCEPT ![r] = Succeed([q EXCEPT !.saved = id], 201, q.doc)]
        /\ UNCHANGED <<donations, projects, events, now, direct>>

\* router.put('/:id') of users, up to the answer of User.findById.
UserFound(q, us) ==
    LET b == q.body
        looked == Called(q, "User.findById")
    IN  IF UserBodyError(b) # << >> THEN FailValidation(q, UserBodyError(b))
        ELSE IF ~IsValidObjectId(q.id) THEN Fail(looked, 400, "Invalid user ID")
        ELSE IF FindById(us, q.id) = Null THEN Fail(looked, 404, "User not found")
        ELSE [looked EXCEPT !.pc = "findEmail"]

PutUser_Find(r) ==
    /\ req[r].op = "PUT /users"
    /\ req[r].pc = "handler"
    /\ req' = [req EXCEPT ![r] = UserFound(req[r], users)]
    /\ UNCHANGED <<users, donations, projects, events, nextId, now, direct>>

\* router.put('/:id') of users, the answer of User.findOne for the email.
UserEmailChecked(q, us) ==
    LET looked == Called(q, "User.findOne")
    IN  IF FindOneByEmail(us, ToLowerCase(q.body.email), q.id) # Null
        THEN Fail(looked, 400, "Email is already taken by another user")
        ELSE [looked EXCEPT !.doc = NewUser(q.body), !.pc = "update"]

PutUser_FindEmail(r) ==
    /\ req[r].op = "PUT /users"
    /\ req[r].pc = "findEmail"
    /\ req' = [req EXCEPT ![r] = UserEmailChecked(req[r], users)]
    /\ UNCHANGED <<users, donations, projects, events, nextId, now, direct>>

\* User.findByIdAndUpdate of router.put('/:id'), and the catch branch: a
\* duplicate key error of the store is neither a ValidationError nor a
\* CastError.
PutUser_Update(r) ==
    LET q == Called(req[r], "User.findByIdAndUpdate")
    IN  /\ req[r].op = "PUT /users"
        /\ req[r].pc = "update"
        /\ IF UserErrors(q.doc) # << >>
           THEN /\ req' = [req EXCEPT ![r] = FailValidation(q, UserErrors(q.doc))]
                /\ UNCHANGED users
           ELSE IF q.id \notin DOMAIN users
           THEN /\ req' = [req EXCEPT ![r] = Succeed(q, 200, Null)]
                /\ UNCHANGED users
           ELSE IF EmailTaken(users, q.doc.email, q.id)
           THEN /\ req' = [req EXCEPT ![r] = Fail(q, 500, "Failed to update user")]
                /\ UNCHANGED users
           ELSE /\ users' = Put(users, q.id, SetFields(users[q.id], q.doc))
                /\ req' = [req EXCEPT ![r] =
                              Succeed(q, 200, SetFields(users[q.id], q.doc))]
        /\ UNCHANGED <<donations, projects, events, nextId, now, direct>>

-----------------------------------------------------------------------------
(* /donations *)

DonationStatuses == {"pending", "completed", "cancelled"}

\* DonationSchema: the message of path p of d when it fails validation.
DonationPathError(p, d, self) ==
    CASE p = "amount" ->
           IF ~Has(d, p) THEN <<"Amount is required">>
           ELSE IF d.amount < 1 THEN <<"Amount must be greater than 0">> ELSE << >>
      [] p = "donorId" ->
           IF ~Has(d, p) THEN <<"Donor ID is required">> ELSE << >>
      [] p = "projectId" ->
           IF FalsyStr(d, p) THEN <<"Project ID is required">> ELSE << >>
      [] p = "description" ->
           IF Has(d, p) /\ Len(d.description) > 200
           THEN <<"Description cannot be more than 200 characters">> ELSE << >>
      [] p = "status" ->
           IF Has(d, p) /\ d.status \notin DonationStatuses
           THEN <<"Status must be either pending, completed, or cancelled">> ELSE << >>
      [] OTHER -> << >>

DonationPaths == <<"amount", "donorId", "projectId", "description", "status">>

\* The ValidationError of document.save(): every path of the schema.
DonationErrors(d) ==
    ConcatAll([i \in 1..Len(DonationPaths) |->
                 DonationPathError(DonationPaths[i], d, d)])

\* The ValidationError of an update with runValidators: the paths it sets.
DonationUpdateErrors(u) ==
    ConcatAll([i \in 1..Len(DonationPaths) |->
                 IF Has(u, DonationPaths[i])
                 THEN DonationPathError(DonationPaths[i], u, NoThis) ELSE << >>])

\* new Donation({...}) at time t: the schema's defaults fill status and the dates.
NewDonation(b, t) ==
    LET given == [amount |-> Number(b.amount), donorId |-> b.donorId,
                  projectId |-> Trim(b.projectId),
                  status |-> "pending", createdAt |-> t, updatedAt |-> t]
    IN  IF ~FalsyStr(b, "description")
        THEN SetFields(given, [description |-> Trim(b.description)])
        ELSE given

\* Mutant: router.post('/') of donations without the isValid test; the lookup
\* of a malformed donorId ends in the CastError branch of the catch.
DonationChecked_NoFormatCheck(q, us, t) ==
    LET b == q.body
        looked == Called(q, "User.findById")
    IN  IF FalsyNum(b, "amount") \/ FalsyId(b, "donorId") \/ FalsyStr(b, "projectId")
        THEN Fail(q, 400, "Missing required fields: amount, donorId, and projectId are required")
        ELSE IF b.amount <= 0 THEN Fail(q, 400, "Amount must be greater than 0")
        ELSE IF ~IsValidObjectId(b.donorId)
        THEN Fail(looked, 400, "Invalid donor ID format")
        ELSE IF FindById(us, b.donorId) = Null THEN Fail(looked, 404, "Donor not found")
        ELSE [looked EXCEPT !.doc = NewDonation(b, t), !.pc = "save"]

\* router.post('/') of donations, up to the answer of User.findById(donorId).
DonationChecked(q, us, t) ==
    LET b == q.body
        looked == Called(q, "User.findById")
    IN  IF FalsyNum(b, "amount") \/ FalsyId(b, "donorId") \/ FalsyStr(b, "projectId")
        THEN Fail(q, 400, "Missing required fields: amount, donorId, and projectId are required")
        ELSE IF b.amount <= 0 THEN Fail(q, 400, "Amount must be greater than 0")
        ELSE IF ~IsValidObjectId(b.donorId)
        THEN Fail(q, 400, "Invalid donor ID format. Must be a valid ObjectId.")
        ELSE IF FindById(us, b.donorId) = Null THEN Fail(looked, 404, "Donor not found")
        ELSE [looked EXCEPT !.doc = NewDonation(b, t), !.pc = "save"]

PostDonation_Check(r) ==
    /\ req[r].pc = "handler"
    /\ req[r].op = "POST /donations"
    /\ req' = [req EXCEPT ![r] = DonationChecked(req[r], users, now)]
    /\ UNCHANGED <<users, donations, projects, events, nextId, now, direct>>

\* DonationSchema.pre('save'): this.updatedAt = Date.now()
DonationPreSave(d, t) == [d EXCEPT !.updatedAt = t]

\* Mutant: donation.save() that inserts under the identifier of the latest
\* donation instead of a fresh one.
PostDonation_Save_SameId(r) ==
    /\ req[r].pc = "save"
    /\ req[r].op = "POST /donations"
    /\ Created < MaxDocs
    /\ LET q == Called(req[r], "Donation.save")
           id == IF nextId.donation > 1 THEN nextId.donation - 1 ELSE 1
       IN  /\ donations' = Put(donations, id, DonationPreSave(q.doc, now))
           /\ nextId' = [nextId EXCEPT !.donation = id + 1]
           /\ req' = [req EXCEPT ![r] = [q EXCEPT !.saved = id, !.pc = "populate"]]
    /\ UNCHANGED <<users, projects, events, now, direct>>

\* donation.save(): validation, the pre-save hook, then the insert.
PostDonation_Save(r) ==
    /\ req[r].pc = "save"
    /\ req[r].op = "POST /donations"
    /\ Created < MaxDocs
    /\ LET q == Called(req[r], "Donation.save")
           errs == DonationErrors(q.doc)
           id == nextId.donation
       IN  IF errs # << >>
           THEN /\ req' = [req EXCEPT ![r] = FailValidation(q, errs)]
                /\ UNCHANGED <<donations, nextId>>
           ELSE /\ donations' = Put(donations, id, DonationPreSave(q.doc, now))
                /\ nextId' = [nextId EXCEPT !.donation = @ + 1]
                /\ req' = [req EXCEPT ![r] = [q EXCEPT !.saved = id, !.pc = "populate"]]
    /\ UNCHANGED <<users, projects, events, now, direct>>

\* .populate(path, 'name email'): the reference replaced by the referent's
\* _id, name and email, or by null when the referent is gone.
Populate(d, path, us) ==
    IF d[path] \in DOMAIN us
    THEN [d EXCEPT ![path] = [id |-> d[path], name |-> us[d[path]].name,
                              email |-> us[d[path]].email]]
    ELSE [d EXCEPT ![path] = Null]

\* Model.findById(id).populate(path, 'name email')
FindPopulated(coll, id, path, us) ==
    IF id \in DOMAIN coll THEN Populate(coll[id], path, us) ELSE Null

PostDonation_Populate(r) ==
    /\ req[r].pc = "populate"
    /\ req[r].op = "POST /donations"
    /\ req' = [req EXCEPT ![r] =
                Succeed(Called(req[r], "Donation.findById"), 201,
                        FindPopulated(donations, req[r].saved, "donorId", users))]
    /\ UNCHANGED <<users, donations, projects, events, nextId, now, direct>>

\* The updateData of router.put('/:id') of donations: the supplied fields.
DonationUpdateData(b) ==
    LET a == IF Has(b, "amount") THEN [amount |-> Number(b.amount)] ELSE << >>
        p == IF Has(b, "projectId") THEN [projectId |-> Trim(b.projectId)] ELSE << >>
        d == IF Has(b, "description") THEN [description |-> Trim(b.description)] ELSE << >>
        st == IF Has(b, "status") THEN [status |-> b.status] ELSE << >>
    IN  SetFields(SetFields(a, p), SetFields(d, st))

\* router.put('/:id') of donations, up to the answer of Donation.findById(id).
DonationFound(q, coll) ==
    LET b == q.body
        looked == Called(q, "Donation.findById")
    IN  IF ~IsValidObjectId(q.id) THEN Fail(looked, 400, "Invalid donation ID")
        ELSE IF FindById(coll, q.id) = Null THEN Fail(looked, 404, "Donation not found")
        ELSE IF Has(b, "amount") /\ b.amount <= 0
        THEN Fail(looked, 400, "Amount must be greater than 0")
        ELSE IF ~FalsyEnum(b, "status") /\ b.status \notin DonationStatuses
        THEN Fail(looked, 400,
                  "Invalid status. Status must be either pending, completed, or cancelled")
        ELSE [looked EXCEPT !.doc = DonationUpdateData(b), !.pc = "update"]

PutDonation_Find(r) ==
    /\ req[r].pc = "handler"
    /\ req[r].op = "PUT /donations"
    /\ req' = [req EXCEPT ![r] = DonationFound(req[r], donations)]
    /\ UNCHANGED <<users, donations, projects, events, nextId, now, direct>>

\* The document after findByIdAndUpdate(id, u): $set of the fields of u.  The
\* query runs no save middleware, so the pre('save') hook does not run.
DonationUpdated(d, u, t) == SetFields(d, u)

\* Donation.findByIdAndUpdate(id, updateData, {new: true, runValidators: true})
\* .populate('donorId', 'name email'), then res.json(updatedDonation).
PutDonation_Update(r) ==
    /\ req[r].pc = "update"
    /\ req[r].op = "PUT /donations"
    /\ LET q == Called(req[r], "Donation.findByIdAndUpdate")
           errs == DonationUpdateErrors(q.doc)
       IN  IF errs # << >>
           THEN /\ req' = [req EXCEPT ![r] = FailValidation(q, errs)]
                /\ UNCHANGED donations
           ELSE IF q.id \notin DOMAIN donations
           THEN /\ req' = [req EXCEPT ![r] = Succeed(q, 200, Null)]
                /\ UNCHANGED donations
           ELSE /\ donations' = Put(donations, q.id,
                                    DonationUpdated(donations[q.id], q.doc, now))
                /\ req' = [req EXCEPT ![r] =
                            Succeed(q, 200,
                                    FindPopulated(donations', q.id, "donorId", users))]
    /\ UNCHANGED <<users, projects, events, nextId, now, direct>>

\* router.delete('/:id') of donations: Donation.findByIdAndDelete.
DeleteDonation(id) ==
    /\ IF ~IsValidObjectId(id)
       THEN /\ direct' = Direct("DELETE /donations", id, 400, <<"Invalid donation ID">>, Null)
            /\ UNCHANGED donations
       ELSE IF id \notin DOMAIN donations
       THEN /\ direct' = Direct("DELETE /donations", id, 404, <<"Donation not found">>, Null)
            /\ UNCHANGED donations
       ELSE /\ direct' = Direct("DELETE /donations", id, 200, << >>, donations[id])
            /\ donations' = Remove(donations, id)
    /\ UNCHANGED <<users, projects, events, nextId, now, req>>

-----------------------------------------------------------------------------
(* /projects *)

ProjectCategories ==
    {"education", "healthcare", "environment", "community", "emergency", "other"}

ProjectStatuses == {"planning", "active", "on-hold", "completed", "cancelled"}

ProjectNameMax == 100
ProjectDescriptionMax == 500
ProjectLocationMax == 200

\* ProjectSchema: the message of path p of d when it fails validation.
ProjectPathError(p, d, self) ==
    CASE p = "name" ->
           IF FalsyStr(d, p) THEN <<"Project name is required">>
           ELSE IF Len(d.name) > ProjectNameMax
           THEN <<"Project name cannot be more than 100 characters">> ELSE << >>
      [] p = "description" ->
           IF FalsyStr(d, p) THEN <<"Project description is required">>
           ELSE IF Len(d.description) > ProjectDescriptionMax
           THEN <<"Description cannot be more than 500 characters">> ELSE << >>
      [] p = "startDate" ->
           IF ~Has(d, p) THEN <<"Start date is required">> ELSE << >>
      [] p = "endDate" ->
           IF ~Has(d, p) THEN <<"End date is required">>
           ELSE IF ~After(d.endDate, self, "startDate")
           THEN <<"End date must be after start date">> ELSE << >>
      [] p = "budget" ->
           IF ~Has(d, p) THEN <<"Budget is required">>
           ELSE IF d.budget < 0 THEN <<"Budget cannot be negative">> ELSE << >>
      [] p = "targetAmount" ->
           IF ~Has(d, p) THEN <<"Target amount is required">>
           ELSE IF d.targetAmount < 0 THEN <<"Target amount cannot be negative">>
           ELSE << >>
      [] p = "status" ->
           IF Has(d, p) /\ d.status \notin ProjectStatuses
           THEN <<"Status must be either planning, active, on-hold, completed, or cancelled">>
           ELSE << >>
      [] p = "managerId" ->
           IF ~Has(d, p) THEN <<"Project manager is required">> ELSE << >>
      [] p = "location" ->
           IF Has(d, p) /\ Len(d.location) > ProjectLocationMax
           THEN <<"Location cannot be more than 200 characters">> ELSE << >>
      [] p = "category" ->
           IF ~Has(d, p) \/ d[p] = "" THEN <<"Project category is required">>
           ELSE IF d.category \notin ProjectCategories
           THEN <<"Category must be education, healthcare, environment, community, emergency, or other">>
           ELSE << >>
      [] OTHER -> << >>

ProjectPaths ==
    <<"name", "description", "startDate", "endDate", "budget", "targetAmount",
      "status", "managerId", "location", "category">>

ProjectErrors(d) ==
    ConcatAll([i \in 1..Len(ProjectPaths) |->
                 ProjectPathError(ProjectPaths[i], d, d)])

ProjectUpdateErrors(u) ==
    ConcatAll([i \in 1..Len(ProjectPaths) |->
                 IF Has(u, ProjectPaths[i])
                 THEN ProjectPathError(ProjectPaths[i], u, NoThis) ELSE << >>])

\* new Project({...}) at time t.
NewProject(b, t) ==
    LET given == [name |-> Trim(b.name), description |-> Trim(b.description),
                  startDate |-> b.startDate, endDate |-> b.endDate,
                  budget |-> Number(b.budget), targetAmount |-> Number(b.targetAmount),
                  managerId |-> b.managerId, category |-> b.category,
                  status |-> IF Has(b, "status") /\ b.status # ""
                             THEN b.status ELSE "planning",
                  createdAt |-> t, updatedAt |-> t]
    IN  IF ~FalsyStr(b, "location")
        THEN SetFields(given, [location |-> Trim(b.location)])
        ELSE given

\* The first check of router.post('/') of projects: a required field is falsy.
ProjectMissing(b) ==
    \/ FalsyStr(b, "name")
    \/ FalsyStr(b, "description")
    \/ ~Has(b, "startDate")
    \/ ~Has(b, "endDate")
    \/ FalsyNum(b, "budget")
    \/ FalsyNum(b, "targetAmount")
    \/ FalsyId(b, "managerId")
    \/ ~Has(b, "category") \/ b.category = ""

\* router.post('/') of projects, up to the answer of User.findById(managerId).
ProjectChecked(q, us, t) ==
    LET b == q.body
        looked == Called(q, "User.findById")
    IN  IF ProjectMissing(b)
        THEN Fail(q, 400, "Missing required fields: name, description, startDate, endDate, budget, targetAmount, managerId, and category are required")
        ELSE IF b.budget < 0 \/ b.targetAmount < 0
        THEN Fail(q, 400, "Budget and target amount cannot be negative")
        ELSE IF ~IsValidObjectId(b.managerId)
        THEN Fail(q, 400, "Invalid manager ID format. Must be a valid ObjectId.")
        ELSE IF FindById(us, b.managerId) = Null
        THEN Fail(looked, 404, "Project manager not found")
        ELSE IF b.category \notin ProjectCategories
        THEN Fail(looked, 400, "Invalid category. Must be one of: education, healthcare, environment, community, emergency, other")
        ELSE IF Has(b, "status") /\ b.status # "" /\ b.status \notin ProjectStatuses
        THEN Fail(looked, 400, "Invalid status. Must be one of: planning, active, on-hold, completed, cancelled")
        ELSE [looked EXCEPT !.doc = NewProject(b, t), !.pc = "save"]

PostProject_Check(r) ==
    /\ req[r].pc = "handler"
    /\ req[r].op = "POST /projects"
    /\ req' = [req EXCEPT ![r] = ProjectChecked(req[r], users, now)]
    /\ UNCHANGED <<users, donations, projects, events, nextId, now, direct>>

\* ProjectSchema.pre('save'): this.updatedAt = Date.now()
ProjectPreSave(d, t) == [d EXCEPT !.updatedAt = t]

\* project.save(): validation, the pre-save hook, then the insert.
PostProject_Save(r) ==
    /\ req[r].pc = "save"
    /\ req[r].op = "POST /projects"
    /\ Created < MaxDocs
    /\ LET q == Called(req[r], "Project.save")
           errs == ProjectErrors(q.doc)
           id == nextId.project
       IN  IF errs # << >>
           THEN /\ req' = [req EXCEPT ![r] = FailValidation(q, errs)]
                /\ UNCHANGED <<projects, nextId>>
           ELSE /\ projects' = Put(projects, id, ProjectPreSave(q.doc, now))
                /\ nextId' = [nextId EXCEPT !.project = @ + 1]
                /\ req' = [req EXCEPT ![r] = [q EXCEPT !.saved = id, !.pc = "populate"]]
    /\ UNCHANGED <<users, donations, events, now, direct>>

PostProject_Populate(r) ==
    /\ req[r].pc = "populate"
    /\ req[r].op = "POST /projects"
    /\ req' = [req EXCEPT ![r] =
                Succeed(Called(req[r], "Project.findById"), 201,
                        FindPopulated(projects, req[r].saved, "managerId", users))]
    /\ UNCHANGED <<users, donations, projects, events, nextId, now, direct>>

ProjectStringFields == {"name", "description", "location"}
ProjectUpdatable ==
    {"name", "description", "startDate", "endDate", "budget", "targetAmount",
     "location", "category", "status"}

\* Mutant: the update defaults the status as the create does
\* (status: status || 'planning').
ProjectUpdateData_DefaultStatus(b) ==
    [f \in (DOMAIN b \cap ProjectUpdatable) \cup {"status"} |->
        IF f \in ProjectStringFields THEN Trim(b[f])
        ELSE IF f \in {"budget", "targetAmount"} THEN Number(b[f])
        ELSE IF f = "status" /\ FalsyEnum(b, f) THEN "planning"
        ELSE b[f]]

\* The updateData of router.put('/:id') of projects: the supplied fields.
ProjectUpdateData(b) ==
    [f \in DOMAIN b \cap ProjectUpdatable |->
        IF f \in ProjectStringFields THEN Trim(b[f])
        ELSE IF f \in {"budget", "targetAmount"} THEN Number(b[f])
        ELSE b[f]]

\* router.put('/:id') of projects, up to the answer of Project.findById(id).
ProjectFound(q, coll) ==
    LET b == q.body
        looked == Called(q, "Project.findById")
    IN  IF ~IsValidObjectId(q.id) THEN Fail(looked, 400, "Invalid project ID or date format")
        ELSE IF FindById(coll, q.id) = Null THEN Fail(looked, 404, "Project not found")
        ELSE IF Has(b, "budget") /\ b.budget < 0
        THEN Fail(looked, 400, "Budget cannot be negative")
        ELSE IF Has(b, "targetAmount") /\ b.targetAmount < 0
        THEN Fail(looked, 400, "Target amount cannot be negative")
        ELSE IF Has(b, "category") /\ b.category # "" /\ b.category \notin ProjectCategories
        THEN Fail(looked, 400, "Invalid category. Must be one of: education, healthcare, environment, community, emergency, other")
        ELSE IF Has(b, "status") /\ b.status # "" /\ b.status \notin ProjectStatuses
        THEN Fail(looked, 400, "Invalid status. Must be one of: planning, active, on-hold, completed, cancelled")
        ELSE [looked EXCEPT !.doc = ProjectUpdateData(b), !.pc = "update"]

PutProject_Find(r) ==
    /\ req[r].pc = "handler"
    /\ req[r].op = "PUT /projects"
    /\ req' = [req EXCEPT ![r] = ProjectFound(req[r], projects)]
    /\ UNCHANGED <<users, donations, projects, events, nextId, now, direct>>

\* The document after findByIdAndUpdate(id, u): no save middleware runs.
ProjectUpdated(d, u, t) == SetFields(d, u)

\* Project.findByIdAndUpdate(id, updateData, {new: true, runValidators: true})
\* .populate('managerId', 'name email'), then res.json(updatedProject).
PutProject_Update(r) ==
    /\ req[r].pc = "update"
    /\ req[r].op = "PUT /projects"
    /\ LET q == Called(req[r], "Project.findByIdAndUpdate")
           errs == ProjectUpdateErrors(q.doc)
       IN  IF errs # << >>
           THEN /\ req' = [req EXCEPT ![r] = FailValidation(q, errs)]
                /\ UNCHANGED projects
           ELSE IF q.id \notin DOMAIN projects
           THEN /\ req' = [req EXCEPT ![r] = Succeed(q, 200, Null)]
                /\ UNCHANGED projects
           ELSE /\ projects' = Put(projects, q.id,
                                   ProjectUpdated(projects[q.id], q.doc, now))
                /\ req' = [req EXCEPT ![r] =
                            Succeed(q, 200,
                                    FindPopulated(projects', q.id, "managerId", users))]
    /\ UNCHANGED <<users, donations, events, nextId, now, direct>>

\* router.delete('/:id') of projects: Project.findByIdAndDelete.
DeleteProject(id) ==
    /\ IF ~IsValidObjectId(id)
       THEN /\ direct' = Direct("DELETE /projects", id, 400, <<"Invalid project ID">>, Null)
            /\ UNCHANGED projects
       ELSE IF id \notin DOMAIN projects
       THEN /\ direct' = Direct("DELETE /projects", id, 404, <<"Project not found">>, Null)
            /\ UNCHANGED projects
       ELSE /\ direct' = Direct("DELETE /projects", id, 200, << >>, projects[id])
            /\ projects' = Remove(projects, id)
    /\ UNCHANGED <<users, donations, events, nextId, now, req>>

-----------------------------------------------------------------------------
(* /events *)

EventTypes ==
    {"fundraiser", "volunteer", "workshop", "conference", "community",
     "awareness", "other"}

EventStatuses == {"planned", "active", "completed", "cancelled", "postponed"}

EventNameMax == 100
EventDescriptionMax == 500
EventLocationMax == 200
MaxAttendeesMin == 1
MaxAttendeesMax == 10000

\* if (this.maxAttendees) in the validator of currentAttendees
TruthyNum(self, f) == Has(self, f) /\ self[f] # 0

\* EventSchema: the message of path p of d when it fails validation at time t.
EventPathError(p, d, self, t) ==
    CASE p = "name" ->
           IF FalsyStr(d, p) THEN <<"Event name is required">>
           ELSE IF Len(d.name) > EventNameMax
           THEN <<"Event name cannot be more than 100 characters">> ELSE << >>
      [] p = "description" ->
           IF FalsyStr(d, p) THEN <<"Event description is required">>
           ELSE IF Len(d.description) > EventDescriptionMax
           THEN <<"Description cannot be more than 500 characters">> ELSE << >>
      [] p = "date" ->
           IF ~Has(d, p) THEN <<"Event date is required">>
           ELSE IF ~(d.date > t) THEN <<"Event date must be in the future">> ELSE << >>
      [] p = "endDate" ->
           IF ~Has(d, p) THEN <<"End date is required">>
           ELSE IF ~After(d.endDate, self, "date")
           THEN <<"End date must be after start date">> ELSE << >>
      [] p = "location" ->
           IF FalsyStr(d, p) THEN <<"Event location is required">>
           ELSE IF Len(d.location) > EventLocationMax
           THEN <<"Location cannot be more than 200 characters">> ELSE << >>
      [] p = "organizerId" ->
           IF ~Has(d, p) THEN <<"Event organizer is required">> ELSE << >>
      [] p = "type" ->
           IF ~Has(d, p) \/ d[p] = "" THEN <<"Event type is required">>
           ELSE IF d.type \notin EventTypes
           THEN <<"Event type must be fundraiser, volunteer, workshop, conference, community, awareness, or other">>
           ELSE << >>
      [] p = "status" ->
           IF Has(d, p) /\ d.status \notin EventStatuses
           THEN <<"Status must be planned, active, completed, cancelled, or postponed">>
           ELSE << >>
      [] p = "maxAttendees" ->
           IF Has(d, p) /\ d.maxAttendees < MaxAttendeesMin
           THEN <<"Maximum attendees must be at least 1">>
           ELSE IF Has(d, p) /\ d.maxAttendees > MaxAttendeesMax
           THEN <<"Maximum attendees cannot exceed 10,000">> ELSE << >>
      [] p = "currentAttendees" ->
           IF Has(d, p) /\ d.currentAttendees < 0
           THEN <<"Current attendees cannot be negative">>
           ELSE IF Has(d, p) /\ TruthyNum(self, "maxAttendees")
                   /\ ~(d.currentAttendees <= self.maxAttendees)
           THEN <<"Current attendees cannot exceed maximum attendees">> ELSE << >>
      [] p = "registrationDeadline" ->
           IF ~Has(d, p) THEN <<"Registration deadline is required">>
           ELSE IF ~Before(d.registrationDeadline, self, "date")
           THEN <<"Registration deadline must be before event date">> ELSE << >>
      [] p = "entryFee" ->
           IF Has(d, p) /\ d.entryFee < 0
           THEN <<"Entry fee cannot be negative">> ELSE << >>
      [] OTHER -> << >>

EventPaths ==
    <<"name", "description", "date", "endDate", "location", "organizerId", "type",
      "status", "maxAttendees", "currentAttendees", "registrationDeadline",
      "entryFee">>

EventErrors(d, t) ==
    ConcatAll([i \in 1..Len(EventPaths) |->
                 EventPathError(EventPaths[i], d, d, t)])

EventUpdateErrors(u, t) ==
    ConcatAll([i \in 1..Len(EventPaths) |->
                 IF Has(u, EventPaths[i])
                 THEN EventPathError(EventPaths[i], u, NoThis, t) ELSE << >>])

\* new Event({...}) at time t.
NewEvent(b, t) ==
    LET given == [name |-> Trim(b.name), description |-> Trim(b.description),
                  date |-> b.date, endDate |-> b.endDate,
                  location |-> Trim(b.location), organizerId |-> b.organizerId,
                  type |-> b.type,
                  status |-> IF Has(b, "status") /\ b.status # ""
                             THEN b.status ELSE "planned",
                  currentAttendees |-> IF ~FalsyNum(b, "currentAttendees")
                                       THEN Number(b.currentAttendees) ELSE 0,
                  registrationDeadline |-> b.registrationDeadline,
                  entryFee |-> IF ~FalsyNum(b, "entryFee")
                               THEN Number(b.entryFee) ELSE 0,
                  createdAt |-> t, updatedAt |-> t]
    IN  IF ~FalsyNum(b, "maxAttendees")
        THEN SetFields(given, [maxAttendees |-> Number(b.maxAttendees)])
        ELSE given

\* The first check of router.post('/') of events: a required field is falsy.
EventMissing(b) ==
    \/ FalsyStr(b, "name")
    \/ FalsyStr(b, "description")
    \/ ~Has(b, "date")
    \/ ~Has(b, "endDate")
    \/ FalsyStr(b, "location")
    \/ FalsyId(b, "organizerId")
    \/ ~Has(b, "type") \/ b.type = ""
    \/ ~Has(b, "registrationDeadline")

\* The range checks that router.post('/') and router.put('/:id') of events
\* share: the message of the first that fails, or << >>.
EventRangeError(b) ==
    IF Has(b, "maxAttendees")
       /\ (b.maxAttendees < MaxAttendeesMin \/ b.maxAttendees > MaxAttendeesMax)
    THEN <<"Maximum attendees must be between 1 and 10,000">>
    ELSE IF Has(b, "currentAttendees") /\ b.currentAttendees < 0
    THEN <<"Current attendees cannot be negative">>
    ELSE IF Has(b, "entryFee") /\ b.entryFee < 0
    THEN <<"Entry fee cannot be negative">>
    ELSE << >>

\* Mutant: router.post('/') of events that validates the type before it
\* looks the organizer up.
EventChecked_TypeFirst(q, us, t) ==
    LET b == q.body
        looked == Called(q, "User.findById")
    IN  IF EventMissing(b)
        THEN Fail(q, 400, "Missing required fields: name, description, date, endDate, location, organizerId, type, and registrationDeadline are required")
        ELSE IF ~IsValidObjectId(b.organizerId)
        THEN Fail(q, 400, "Invalid organizer ID format. Must be a valid ObjectId.")
        ELSE IF b.type \notin EventTypes
        THEN Fail(q, 400, "Invalid event type. Must be one of: fundraiser, volunteer, workshop, conference, community, awareness, other")
        ELSE IF FindById(us, b.organizerId) = Null
        THEN Fail(looked, 404, "Event organizer not found")
        ELSE IF Has(b, "status") /\ b.status # "" /\ b.status \notin EventStatuses
        THEN Fail(looked, 400, "Invalid status. Must be one of: planned, active, completed, cancelled, postponed")
        ELSE IF EventRangeError(b) # << >>
        THEN FailValidation(looked, EventRangeError(b))
        ELSE [looked EXCEPT !.doc = NewEvent(b, t), !.pc = "save"]

\* router.post('/') of events, up to the answer of User.findById(organizerId).
EventChecked(q, us, t) ==
    LET b == q.body
        looked == Called(q, "User.findById")
    IN  IF EventMissing(b)
        THEN Fail(q, 400, "Missing required fields: name, description, date, endDate, location, organizerId, type, and registrationDeadline are required")
        ELSE IF ~IsValidObjectId(b.organizerId)
        THEN Fail(q, 400, "Invalid organizer ID format. Must be a valid ObjectId.")
        ELSE IF FindById(us, b.organizerId) = Null
        THEN Fail(looked, 404, "Event organizer not found")
        ELSE IF b.type \notin EventTypes
        THEN Fail(looked, 400, "Invalid event type. Must be one of: fundraiser, volunteer, workshop, conference, community, awareness, other")
        ELSE IF Has(b, "status") /\ b.status # "" /\ b.status \notin EventStatuses
        THEN Fail(looked, 400, "Invalid status. Must be one of: planned, active, completed, cancelled, postponed")
        ELSE IF EventRangeError(b) # << >>
        THEN FailValidation(looked, EventRangeError(b))
        ELSE [looked EXCEPT !.doc = NewEvent(b, t), !.pc = "save"]

PostEvent_Check(r) ==
    /\ req[r].pc = "handler"
    /\ req[r].op = "POST /events"
    /\ req' = [req EXCEPT ![r] = EventChecked(req[r], users, now)]
    /\ UNCHANGED <<users, donations, projects, events, nextId, now, direct>>

\* EventSchema.pre('save'): this.updatedAt = Date.now()
EventPreSave(d, t) == [d EXCEPT !.updatedAt = t]

\* event.save(): validation, the pre-save hook, then the insert.
PostEvent_Save(r) ==
    /\ req[r].pc = "save"
    /\ req[r].op = "POST /events"
    /\ Created < MaxDocs
    /\ LET q == Called(req[r], "Event.save")
           errs == EventErrors(q.doc, now)
           id == nextId.event
       IN  IF errs # << >>
           THEN /\ req' = [req EXCEPT ![r] = FailValidation(q, errs)]
                /\ UNCHANGED <<events, nextId>>
           ELSE /\ events' = Put(events, id, EventPreSave(q.doc, now))
                /\ nextId' = [nextId EXCEPT !.event = @ + 1]
                /\ req' = [req EXCEPT ![r] = [q EXCEPT !.saved = id, !.pc = "populate"]]
    /\ UNCHANGED <<users, donations, projects, now, direct>>

PostEvent_Populate(r) ==
    /\ req[r].pc = "populate"
    /\ req[r].op = "POST /events"
    /\ req' = [req EXCEPT ![r] =
                Succeed(Called(req[r], "Event.findById"), 201,
                        FindPopulated(events, req[r].saved, "organizerId", users))]
    /\ UNCHANGED <<users, donations, projects, events, nextId, now, direct>>

EventStringFields == {"name", "description", "location"}
EventNumberFields == {"maxAttendees", "currentAttendees", "entryFee"}
EventUpdatable ==
    {"name", "description", "date", "endDate", "location", "type", "status",
     "maxAttendees", "currentAttendees", "registrationDeadline", "entryFee"}

\* Mutant: an updateData that also takes the organizer from the body.
EventUpdateData_WithOrganizer(b) ==
    [f \in DOMAIN b \cap (EventUpdatable \cup {"organizerId"}) |->
        IF f \in EventStringFields THEN Trim(b[f])
        ELSE IF f \in EventNumberFields THEN Number(b[f])
        ELSE b[f]]

\* The updateData of router.put('/:id') of events: the supplied fields.
EventUpdateData(b) ==
    [f \in DOMAIN b \cap EventUpdatable |->
        IF f \in EventStringFields THEN Trim(b[f])
        ELSE IF f \in EventNumberFields THEN Number(b[f])
        ELSE b[f]]

\* router.put('/:id') of events, up to the answer of Event.findById(id).
EventFound(q, coll) ==
    LET b == q.body
        looked == Called(q, "Event.findById")
    IN  IF ~IsValidObjectId(q.id) THEN Fail(looked, 400, "Invalid event ID or date format")
        ELSE IF FindById(coll, q.id) = Null THEN Fail(looked, 404, "Event not found")
        ELSE IF Has(b, "type") /\ b.type # "" /\ b.type \notin EventTypes
        THEN Fail(looked, 400, "Invalid event type. Must be one of: fundraiser, volunteer, workshop, conference, community, awareness, other")
        ELSE IF Has(b, "status") /\ b.status # "" /\ b.status \notin EventStatuses
        THEN Fail(looked, 400, "Invalid status. Must be one of: planned, active, completed, cancelled, postponed")
        ELSE IF EventRangeError(b) # << >>
        THEN FailValidation(looked, EventRangeError(b))
        ELSE [looked EXCEPT !.doc = EventUpdateData(b), !.pc = "update"]

PutEvent_Find(r) ==
    /\ req[r].pc = "handler"
    /\ req[r].op = "PUT /events"
    /\ req' = [req EXCEPT ![r] = EventFound(req[r], events)]
    /\ UNCHANGED <<users, donations, projects, events, nextId, now, direct>>

\* The document after findByIdAndUpdate(id, u): no save middleware runs.
EventUpdated(d, u, t) == SetFields(d, u)

\* Event.findByIdAndUpdate(id, updateData, {new: true, runValidators: true})
\* .populate('organizerId', 'name email'), then res.json(updatedEvent).
PutEvent_Update(r) ==
    /\ req[r].pc = "update"
    /\ req[r].op = "PUT /events"
    /\ LET q == Called(req[r], "Event.findByIdAndUpdate")
           errs == EventUpdateErrors(q.doc, now)
       IN  IF errs # << >>
           THEN /\ req' = [req EXCEPT ![r] = FailValidation(q, errs)]
                /\ UNCHANGED events
           ELSE IF q.id \notin DOMAIN events
           THEN /\ req' = [req EXCEPT ![r] = Succeed(q, 200, Null)]
                /\ UNCHANGED events
           ELSE /\ events' = Put(events, q.id, EventUpdated(events[q.id], q.doc, now))
                /\ req' = [req EXCEPT ![r] =
                            Succeed(q, 200,
                                    FindPopulated(events', q.id, "organizerId", users))]
    /\ UNCHANGED <<users, donations, projects, nextId, now, direct>>

\* router.delete('/:id') of events: Event.findByIdAndDelete.
DeleteEvent(id) ==
    /\ IF ~IsValidObjectId(id)
       THEN /\ direct' = Direct("DELETE /events", id, 400, <<"Invalid event ID">>, Null)
            /\ UNCHANGED events
       ELSE IF id \notin DOMAIN events
       THEN /\ direct' = Direct("DELETE /events", id, 404, <<"Event not found">>, Null)
            /\ UNCHANGED events
       ELSE /\ direct' = Direct("DELETE /events", id, 200, << >>, events[id])
            /\ events' = Remove(events, id)
    /\ UNCHANGED <<users, donations, projects, nextId, now, req>>

-----------------------------------------------------------------------------
(* The initial state and the requests that arrive *)

\* The slots of the requests that are in flight together.  The handlers with
\* a single store call need no slot, so they interleave with the request of
\* one slot at every await.
Slots == {1}

\* The requests to /users in flight: two, which interleave at every await.
UserSlots == {1, 2}

Str(c) == <<c>>

\* The store after three POST /users: an admin, a volunteer and a donor.
SeedUsers ==
    (1 :> [name |-> Str("a"), email |-> Str("a"), role |-> "admin"])
    @@ (2 :> [name |-> Str("v"), email |-> Str("v"), role |-> "volunteer"])
    @@ (3 :> [name |-> Str("d"), email |-> Str("d"), role |-> "donor"])

\* The user the created documents refer to.
Owner == CHOOSE u \in DOMAIN SeedUsers : SeedUsers[u].role = "volunteer"

\* A well-formed ObjectId that names no user.
AbsentUser == Cardinality(DOMAIN SeedUsers) + 1

Init ==
    /\ users = SeedUsers
    /\ donations = << >>
    /\ projects = << >>
    /\ events = << >>
    /\ nextId = [user |-> 4, donation |-> 1, project |-> 1, event |-> 1]
    /\ now = 0
    /\ req = [r \in Slots \cup UserSlots |-> Idle]
    /\ direct = Direct("", BadId, 0, << >>, Null)

\* The bodies that carry field f with a value of vs, and the one without f.
Opt(f, vs) == {f :> v : v \in vs} \cup {<< >>}

\* Body b without its field f.
Without(b, f) == [g \in DOMAIN b \ {f} |-> b[g]]

AdminToken == [kind |-> "valid", userId |-> 1]

\* The Authorization headers: none, a forged token, an expired token, and
\* the tokens /auth/login issued to the three users.
Tokens ==
    {NoToken, [kind |-> "badsig", userId |-> 1], [kind |-> "expired", userId |-> 1]}
    \cup {[kind |-> "valid", userId |-> u] : u \in DOMAIN SeedUsers}

\* A body of POST /donations that passes every check when donor d exists.
GoodDonation(d) == [amount |-> 5, donorId |-> d, projectId |-> <<"p", "1">>]

\* A body of POST /projects that passes every check when manager m exists.
GoodProject(m) ==
    [name |-> Str("n"), description |-> Str("t"), startDate |-> 1, endDate |-> 2,
     budget |-> 10, targetAmount |-> 20, managerId |-> m, category |-> "education"]

\* A body of POST /events that passes every check when organizer o exists
\* and the clock has not reached 4.
GoodEvent(o) ==
    [name |-> Str("n"), description |-> Str("t"), date |-> 5, endDate |-> 6,
     location |-> Str("l"), organizerId |-> o, type |-> "workshop",
     registrationDeadline |-> 4]

\* The bodies of POST /donations.
DonationCreates ==
    {a @@ d @@ p :
        a \in Opt("amount", {0 - 1, 0, 5}),
        d \in Opt("donorId", {BadId, Owner, AbsentUser}),
        p \in Opt("projectId", {<<"p", "1">>, <<" ">>})}
    \cup {[description |-> <<" ", "x">>] @@ GoodDonation(Owner)}

\* The bodies of POST /projects: GoodProject with some fields changed.
ProjectCreates ==
    {b @@ t @@ m @@ GoodProject(Owner) :
        b \in Opt("budget", {0 - 1, 0}),
        t \in Opt("targetAmount", {0}),
        m \in Opt("managerId", {BadId, AbsentUser})}
    \cup {Without(GoodProject(Owner), "name"),
          [category |-> "sports"] @@ GoodProject(Owner),
          [category |-> "sports"] @@ GoodProject(AbsentUser)}

\* The bodies of POST /events: GoodEvent with some fields changed.
EventCreates ==
    {o @@ m @@ c @@ GoodEvent(Owner) :
        o \in Opt("organizerId", {BadId, AbsentUser}),
        m \in Opt("maxAttendees", {0, 1}),
        c \in Opt("currentAttendees", {0 - 1, 2})}
    \cup {Without(GoodEvent(Owner), "type"),
          [type |-> "party"] @@ GoodEvent(AbsentUser)}

-----------------------------------------------------------------------------
(* Creation: the three POST handlers race with DELETE /users/:id *)

ArriveCreate(r) ==
    \/ \E b \in DonationCreates : Arrive(r, "POST /donations", BadId, b, NoToken)
    \/ \E b \in ProjectCreates : Arrive(r, "POST /projects", BadId, b, AdminToken)
    \/ \E b \in EventCreates : Arrive(r, "POST /events", BadId, b, AdminToken)

Middleware(r) ==
    \/ authenticateToken(r)
    \/ requireAdminOrManager(r)

CreateSteps(r) ==
    \/ PostDonation_Check(r)
    \/ PostDonation_Save(r)
    \/ PostDonation_Populate(r)
    \/ PostProject_Check(r)
    \/ PostProject_Save(r)
    \/ PostProject_Populate(r)
    \/ PostEvent_Check(r)
    \/ PostEvent_Save(r)
    \/ PostEvent_Populate(r)

NextCreate ==
    \/ \E r \in Slots : ArriveCreate(r) \/ Middleware(r) \/ CreateSteps(r)
    \/ DeleteUser(Owner)

SpecCreate == Init /\ [][NextCreate]_vars

Creates == {"POST /donations", "POST /projects", "POST /events"}

\* The field of a create body that refers to a User.
RefField(op) ==
    CASE op = "POST /donations" -> "donorId"
      [] op = "POST /projects" -> "managerId"
      [] op = "POST /events" -> "organizerId"

\* The request q carries a well-formed reference.
WellFormedRef(q) ==
    /\ q.op \in Creates
    /\ Has(q.body, RefField(q.op))
    /\ IsValidObjectId(q.body[RefField(q.op)])

\* The store call of request q that writes its document.
SaveCall(q) ==
    CASE q.op = "POST /donations" -> "Donation.save"
      [] q.op = "POST /projects" -> "Project.save"
      [] q.op = "POST /events" -> "Event.save"

\* C5: at the moment a create handler writes its document (the step from
\* "save" to "populate"), the User its donorId / managerId / organizerId
\* names is in the store.
C5_RefExistsAtWrite ==
    [][\A r \in Slots :
         (req[r].pc = "save" /\ req'[r].pc = "populate")
            => req[r].doc[RefField(req[r].op)] \in DOMAIN users]_vars

\* Every required field of the create body of q is present and non-empty, and
\* its amount / budget / targetAmount is positive.
PresentAndPositive(q) ==
    LET b == q.body
    IN  CASE q.op = "POST /donations" ->
               /\ Has(b, "amount") /\ b.amount > 0
               /\ Has(b, "projectId") /\ b.projectId # << >>
          [] q.op = "POST /projects" ->
               /\ \A f \in {"name", "description"} : Has(b, f) /\ b[f] # << >>
               /\ \A f \in {"startDate", "endDate"} : Has(b, f)
               /\ \A f \in {"budget", "targetAmount"} : Has(b, f) /\ b[f] > 0
               /\ Has(b, "category") /\ b.category # ""
          [] q.op = "POST /events" ->
               /\ \A f \in {"name", "description", "location"} :
                     Has(b, f) /\ b[f] # << >>
               /\ \A f \in {"date", "endDate", "registrationDeadline"} : Has(b, f)
               /\ Has(b, "type") /\ b.type # ""

C7_ZeroAmountMessage ==
    \A r \in Slots :
        (/\ req[r].pc = "done"
         /\ req[r].op = "POST /donations"
         /\ Has(req[r].body, "amount") /\ req[r].body.amount = 0
         /\ Has(req[r].body, "donorId") /\ req[r].body.donorId \in DOMAIN users
         /\ Has(req[r].body, "projectId") /\ Trim(req[r].body.projectId) # << >>)
            => /\ req[r].status = 400
               /\ req[r].msg = <<"Amount must be greater than 0">>
               /\ "Donation.save" \notin req[r].calls

\* C8: POST /projects by an admin with every other field valid and budget 0
\* or targetAmount 0 is accepted (201) while the manager exists.
C8_ZeroBudgetAccepted ==
    \A r \in Slots :
        (/\ req[r].pc = "done"
         /\ req[r].op = "POST /projects"
         /\ req[r].user # NoUser /\ req[r].user.role \in {"admin", "volunteer"}
         /\ \E b \in {0, 10}, t \in {0, 20} :
               /\ b = 0 \/ t = 0
               /\ req[r].body = [budget |-> b, targetAmount |-> t] @@ GoodProject(Owner)
         /\ Owner \in DOMAIN users)
            => req[r].status = 201

-----------------------------------------------------------------------------
(* The protected routes: every kind of Authorization header *)

\* The bodies of the requests to the protected routes.
ProtectedBodies(op) ==
    CASE op = "POST /projects" -> {GoodProject(Owner), Without(GoodProject(Owner), "name")}
      [] op = "PUT /projects" -> {[status |-> "active"], [budget |-> 0 - 1]}
      [] op = "POST /events" -> {GoodEvent(Owner), Without(GoodEvent(Owner), "type")}
      [] op = "PUT /events" -> {[status |-> "cancelled"], [entryFee |-> 0 - 1]}

ArriveProtected(r) ==
    \E op \in Protected :
        \E b \in ProtectedBodies(op), t \in Tokens : Arrive(r, op, 1, b, t)

ProtectedSteps(r) ==
    \/ PostProject_Check(r)
    \/ PostProject_Save(r)
    \/ PostProject_Populate(r)
    \/ PutProject_Find(r)
    \/ PutProject_Update(r)
    \/ PostEvent_Check(r)
    \/ PostEvent_Save(r)
    \/ PostEvent_Populate(r)
    \/ PutEvent_Find(r)
    \/ PutEvent_Update(r)

NextAuth ==
    \/ \E r \in Slots : ArriveProtected(r) \/ Middleware(r) \/ ProtectedSteps(r)
    \/ \E u \in DOMAIN SeedUsers : DeleteUser(u)

SpecAuth == Init /\ [][NextAuth]_vars

-----------------------------------------------------------------------------
(* Updates: documents are created, then changed by PUT *)

\* The bodies of PUT /donations/:id: every subset of the updatable fields,
\* and two that the handler rejects.
DonationUpdates ==
    {a @@ p @@ st :
        a \in Opt("amount", {7}),
        p \in Opt("projectId", {<<" ", "q">>}),
        st \in Opt("status", {"completed"})}
    \cup {[description |-> <<"x", " ">>], [amount |-> 0], [status |-> "bogus"],
          [projectId |-> <<" ">>]}

\* The bodies of PUT /projects/:id.
ProjectUpdates ==
    {n @@ b @@ st @@ e :
        n \in Opt("name", {<<"m", " ">>}),
        b \in Opt("budget", {0}),
        st \in Opt("status", {"active"}),
        e \in Opt("endDate", {9})}
    \cup {[targetAmount |-> 0 - 1], [category |-> "sports"]}

\* The bodies of PUT /events/:id.
EventUpdates ==
    {st @@ c @@ m @@ d :
        st \in Opt("status", {"cancelled"}),
        c \in Opt("currentAttendees", {7}),
        m \in Opt("maxAttendees", {3}),
        d \in Opt("date", {9})}
    \cup {[date |-> 0], [maxAttendees |-> 0], [type |-> "party"]}

ArriveUpdate(r) ==
    \/ Arrive(r, "POST /donations", BadId, GoodDonation(Owner), NoToken)
    \/ Arrive(r, "POST /projects", BadId, GoodProject(Owner), AdminToken)
    \/ Arrive(r, "POST /events", BadId, GoodEvent(Owner), AdminToken)
    \/ \E b \in DonationUpdates : Arrive(r, "PUT /donations", 1, b, NoToken)
    \/ \E b \in ProjectUpdates : Arrive(r, "PUT /projects", 1, b, AdminToken)
    \/ \E b \in EventUpdates : Arrive(r, "PUT /events", 1, b, AdminToken)
    \/ \E op \in {"PUT /donations", "PUT /projects", "PUT /events"}, i \in {BadId, 2} :
          Arrive(r, op, i, << >>, AdminToken)

UpdateSteps(r) ==
    \/ PutDonation_Find(r)
    \/ PutDonation_Update(r)
    \/ PutProject_Find(r)
    \/ PutProject_Update(r)
    \/ PutEvent_Find(r)
    \/ PutEvent_Update(r)

NextUpdate ==
    \/ \E r \in Slots :
          ArriveUpdate(r) \/ Middleware(r) \/ CreateSteps(r) \/ UpdateSteps(r)

SpecUpdate == Init /\ [][NextUpdate]_vars

-----------------------------------------------------------------------------
(* Timestamps: documents are created, then changed by PUT, while time passes *)

ArriveTouch(r) ==
    \/ Arrive(r, "POST /donations", BadId, GoodDonation(Owner), NoToken)
    \/ Arrive(r, "POST /projects", BadId, GoodProject(Owner), AdminToken)
    \/ Arrive(r, "POST /events", BadId, GoodEvent(Owner), AdminToken)
    \/ Arrive(r, "PUT /donations", 1, [status |-> "completed"], NoToken)
    \/ Arrive(r, "PUT /projects", 1, [budget |-> 30], AdminToken)
    \/ Arrive(r, "PUT /events", 1, [status |-> "cancelled"], AdminToken)

NextTouch ==
    \/ \E r \in Slots :
          ArriveTouch(r) \/ Middleware(r) \/ CreateSteps(r) \/ UpdateSteps(r)
    \/ Tick

SpecTouch == Init /\ [][NextTouch]_vars

-----------------------------------------------------------------------------
(* /users: creates and updates, two at a time *)

\* A body of POST /users and PUT /users/:id with the email e.
FullUser(e) == [name |-> Str("n"), email |-> e, role |-> "donor"]

\* Emails: the admin's in another case, the admin's with a leading blank,
\* the volunteer's own, and two new ones that differ in case only.
UserEmails == {Str("A"), <<" ", "a">>, Str("v"), Str("b"), Str("B")}

\* Bodies: complete ones, partial ones, the empty one, and invalid ones.
UserBodies ==
    {FullUser(e) : e \in UserEmails}
    \cup {[name |-> Str("x")], [email |-> Str("b")], [role |-> "admin"], NoBody}
    \cup {[name |-> Str("n"), email |-> Str("b"), role |-> "boss"],
          [name |-> Str(" "), email |-> Str("b"), role |-> "donor"]}

\* A well-formed ObjectId that the driver never generates.
NeverUser == Cardinality(DOMAIN SeedUsers) + MaxUsers

ArriveUser(r) ==
    \E b \in UserBodies :
        \/ Arrive(r, "POST /users", BadId, b, NoToken)
        \/ \E id \in {Owner, BadId, NeverUser} : Arrive(r, "PUT /users", id, b, NoToken)

\* The requests of the second slot: a create and an update with the same
\* new email.
ArriveRival(r) ==
    \/ Arrive(r, "POST /users", BadId, FullUser(Str("B")), NoToken)
    \/ Arrive(r, "PUT /users", Cardinality(DOMAIN SeedUsers), FullUser(Str("b")), NoToken)

UserSteps(r) ==
    \/ PostUser_Check(r)
    \/ PostUser_Save(r)
    \/ PutUser_Find(r)
    \/ PutUser_FindEmail(r)
    \/ PutUser_Update(r)

NextUsers ==
    \/ ArriveUser(1)
    \/ ArriveRival(2)
    \/ \E r \in UserSlots : UserSteps(r)

SpecUsers == Init /\ [][NextUsers]_vars

-----------------------------------------------------------------------------
(* Deletes: documents are created and deleted, users are deleted *)

ArriveGood(r) ==
    \/ Arrive(r, "POST /donations", BadId, GoodDonation(Owner), NoToken)
    \/ Arrive(r, "POST /projects", BadId, GoodProject(Owner), AdminToken)
    \/ Arrive(r, "POST /events", BadId, GoodEvent(Owner), AdminToken)

DeleteDocs ==
    \E id \in BadId..MaxDocs : DeleteDonation(id) \/ DeleteProject(id) \/ DeleteEvent(id)

DeleteUsers == \E id \in {BadId, Owner, AbsentUser} : DeleteUser(id)

NextDelete ==
    \/ \E r \in Slots : ArriveGood(r) \/ Middleware(r) \/ CreateSteps(r)
    \/ DeleteDocs
    \/ DeleteUsers

SpecDelete == Init /\ [][NextDelete]_vars

-----------------------------------------------------------------------------
(* The lists by relation: GET /donations/donor/:donorId,
   /projects/manager/:managerId, /events/organizer/:organizerId *)

Lists == {"GET /donations/donor", "GET /projects/manager", "GET /events/organizer"}

\* The messages of a list handler: for a malformed id and for an absent user.
ListMessages(op) ==
    CASE op = "GET /donations/donor" ->
           [bad |-> "Invalid donor ID format. Must be a valid ObjectId.",
            absent |-> "Donor not found"]
      [] op = "GET /projects/manager" ->
           [bad |-> "Invalid manager ID format. Must be a valid ObjectId.",
            absent |-> "Project manager not found"]
      [] op = "GET /events/organizer" ->
           [bad |-> "Invalid organizer ID format. Must be a valid ObjectId.",
            absent |-> "Event organizer not found"]

\* Mutant: a list handler without the lookup of the user.
ListChecked_NoLookup(q, us) ==
    IF ~IsValidObjectId(q.id) THEN Fail(q, 400, ListMessages(q.op).bad)
    ELSE [q EXCEPT !.pc = "find"]

\* A list handler up to the answer of User.findById.
ListChecked(q, us) ==
    LET looked == Called(q, "User.findById")
    IN  IF ~IsValidObjectId(q.id) THEN Fail(q, 400, ListMessages(q.op).bad)
        ELSE IF FindById(us, q.id) = Null THEN Fail(looked, 404, ListMessages(q.op).absent)
        ELSE [looked EXCEPT !.pc = "find"]

\* Model.find({ path: id }).populate(path, 'name email'): the matching
\* documents among those with the identifiers 1..n, in that order.
RECURSIVE FindBy(_, _, _, _, _)
FindBy(coll, path, id, us, n) ==
    IF n = 0 THEN << >>
    ELSE FindBy(coll, path, id, us, n - 1)
         \o (IF n \in DOMAIN coll /\ coll[n][path] = id
             THEN <<Populate(coll[n], path, us)>> ELSE << >>)

\* res.json(array)
Items(a) == [items |-> a]

\* The step of a list handler that checks the id and looks the user up.
List_Check(r) ==
    /\ req[r].op \in Lists
    /\ req[r].pc = "handler"
    /\ req' = [req EXCEPT ![r] = ListChecked(req[r], users)]
    /\ UNCHANGED <<users, donations, projects, events, nextId, now, direct>>

GetDonationsByDonor_Find(r) ==
    /\ req[r].op = "GET /donations/donor"
    /\ req[r].pc = "find"
    /\ req' = [req EXCEPT ![r] =
                  Succeed(Called(req[r], "Donation.find"), 200,
                          Items(FindBy(donations, "donorId", req[r].id, users,
                                       nextId.donation - 1)))]
    /\ UNCHANGED <<users, donations, projects, events, nextId, now, direct>>

GetProjectsByManager_Find(r) ==
    /\ req[r].op = "GET /projects/manager"
    /\ req[r].pc = "find"
    /\ req' = [req EXCEPT ![r] =
                  Succeed(Called(req[r], "Project.find"), 200,
                          Items(FindBy(projects, "managerId", req[r].id, users,
                                       nextId.project - 1)))]
    /\ UNCHANGED <<users, donations, projects, events, nextId, now, direct>>

GetEventsByOrganizer_Find(r) ==
    /\ req[r].op = "GET /events/organizer"
    /\ req[r].pc = "find"
    /\ req' = [req EXCEPT ![r] =
                  Succeed(Called(req[r], "Event.find"), 200,
                          Items(FindBy(events, "organizerId", req[r].id, users,
                                       nextId.event - 1)))]
    /\ UNCHANGED <<users, donations, projects, events, nextId, now, direct>>

\* A create body whose reference is malformed, all else valid.
BadRef(b, f) == [b EXCEPT ![f] = BadId]

\* A user who is no donor, manager or organizer of any document.
Bystander == CHOOSE u \in DOMAIN SeedUsers : SeedUsers[u].role = "donor"

ArriveList(r) ==
    \/ ArriveGood(r)
    \/ Arrive(r, "POST /donations", BadId, BadRef(GoodDonation(Owner), "donorId"), NoToken)
    \/ Arrive(r, "POST /donations", BadId, [donorId |-> BadId], NoToken)
    \/ Arrive(r, "POST /projects", BadId, BadRef(GoodProject(Owner), "managerId"), AdminToken)
    \/ Arrive(r, "POST /events", BadId, BadRef(GoodEvent(Owner), "organizerId"), AdminToken)
    \/ \E op \in Lists, id \in {BadId, Owner, Bystander, AbsentUser} :
          Arrive(r, op, id, NoBody, NoToken)

ListSteps(r) ==
    \/ List_Check(r)
    \/ GetDonationsByDonor_Find(r)
    \/ GetProjectsByManager_Find(r)
    \/ GetEventsByOrganizer_Find(r)

NextList ==
    \/ \E r \in Slots : ArriveList(r) \/ Middleware(r) \/ CreateSteps(r) \/ ListSteps(r)
    \/ DeleteUser(Owner)

SpecList == Init /\ [][NextList]_vars

-----------------------------------------------------------------------------
(* Ranges: PUTs that move one end of a range another field bounds *)

ArriveRange(r) ==
    \/ Arrive(r, "POST /projects", BadId, GoodProject(Owner), AdminToken)
    \/ Arrive(r, "POST /events", BadId, [maxAttendees |-> 3] @@ GoodEvent(Owner), AdminToken)
    \/ Arrive(r, "POST /events", BadId,
              [maxAttendees |-> 3, currentAttendees |-> 4] @@ GoodEvent(Owner), AdminToken)
    \/ \E b \in {[startDate |-> 3], [endDate |-> 9], [startDate |-> 1, endDate |-> 9]} :
          Arrive(r, "PUT /projects", 1, b, AdminToken)
    \/ \E b \in {[currentAttendees |-> 3], [currentAttendees |-> 4], [maxAttendees |-> 2]} :
          Arrive(r, "PUT /events", 1, b, AdminToken)

RangeSteps(r) ==
    \/ PostProject_Check(r)
    \/ PostProject_Save(r)
    \/ PostProject_Populate(r)
    \/ PutProject_Find(r)
    \/ PutProject_Update(r)
    \/ PostEvent_Check(r)
    \/ PostEvent_Save(r)
    \/ PostEvent_Populate(r)
    \/ PutEvent_Find(r)
    \/ PutEvent_Update(r)

NextRange ==
    \/ \E r \in Slots : ArriveRange(r) \/ Middleware(r) \/ RangeSteps(r)
    \/ Tick

SpecRange == Init /\ [][NextRange]_vars

-----------------------------------------------------------------------------
(* Optional fields: creates that supply them and creates that omit them *)

\* Bodies of the three creates with every optional field the schema has.
FullDonation(d) ==
    [status |-> "completed", description |-> <<"x", " ">>] @@ GoodDonation(d)

FullProject(m) ==
    [status |-> "active", location |-> <<" ", "l">>] @@ GoodProject(m)

FullEvent(o) ==
    [status |-> "active", maxAttendees |-> 3, currentAttendees |-> 2, entryFee |-> 4]
    @@ GoodEvent(o)

ArriveOptional(r) ==
    \/ \E b \in {GoodDonation(Owner), FullDonation(Owner)} :
          Arrive(r, "POST /donations", BadId, b, NoToken)
    \/ \E b \in {GoodProject(Owner), FullProject(Owner)} :
          Arrive(r, "POST /projects", BadId, b, AdminToken)
    \/ \E b \in {GoodEvent(Owner), FullEvent(Owner)} :
          Arrive(r, "POST /events", BadId, b, AdminToken)

NextOptional ==
    \E r \in Slots : ArriveOptional(r) \/ Middleware(r) \/ CreateSteps(r)

SpecOptional == Init /\ [][NextOptional]_vars

-----------------------------------------------------------------------------
(* Concurrent creates: two creates in flight that name the same user *)

\* Two requests in flight, which interleave at every await.
PairSlots == {1, 2}

NextPair ==
    \E r \in PairSlots : ArriveGood(r) \/ Middleware(r) \/ CreateSteps(r)

SpecPair == Init /\ [][NextPair]_vars

-----------------------------------------------------------------------------
(* Updates that race with deletes, and updates that name fields the handler
   does not update *)

\* A body that supplies, besides the updatable fields of u, an identifier, a
\* creation date and another user as the reference ref.
WithForeign(u, ref) ==
    u @@ (ref :> Bystander) @@ ("_id" :> AbsentUser) @@ [createdAt |-> 9]

ArriveRace(r) ==
    \/ ArriveGood(r)
    \/ \E b \in {[status |-> "completed"],
                 WithForeign([status |-> "completed"], "donorId")} :
          Arrive(r, "PUT /donations", 1, b, NoToken)
    \/ \E b \in {[budget |-> 30], WithForeign([budget |-> 30], "managerId")} :
          Arrive(r, "PUT /projects", 1, b, AdminToken)
    \/ \E b \in {[status |-> "cancelled"],
                 WithForeign([status |-> "cancelled"], "organizerId")} :
          Arrive(r, "PUT /events", 1, b, AdminToken)

\* DELETE of the documents that the updates name.
DeleteFirst == \E id \in {1} : DeleteDonation(id) \/ DeleteProject(id) \/ DeleteEvent(id)

NextRace ==
    \/ \E r \in Slots :
          ArriveRace(r) \/ Middleware(r) \/ CreateSteps(r) \/ UpdateSteps(r)
    \/ DeleteFirst

SpecRace == Init /\ [][NextRace]_vars

-----------------------------------------------------------------------------
(* Roles that change: PUT /users/:id in one slot, the protected routes in
   the other *)

\* The users whose role changes: the admin and the donor.
Changing == {u \in DOMAIN SeedUsers : SeedUsers[u].role \in {"admin", "donor"}}

\* PUT /users/:id with the name and email the user has and a role.
ArriveRoleChange(r) ==
    \E u \in Changing, role \in UserRoles :
        Arrive(r, "PUT /users", u, [SeedUsers[u] EXCEPT !.role = role], NoToken)

\* The protected routes with the tokens issued to those users.
ArriveWithRole(r) ==
    \E u \in Changing :
        \/ Arrive(r, "POST /projects", BadId, GoodProject(Owner), [kind |-> "valid", userId |-> u])
        \/ Arrive(r, "PUT /projects", 1, [status |-> "active"], [kind |-> "valid", userId |-> u])
        \/ Arrive(r, "POST /events", BadId, GoodEvent(Owner), [kind |-> "valid", userId |-> u])
        \/ Arrive(r, "PUT /events", 1, [status |-> "cancelled"], [kind |-> "valid", userId |-> u])

NextRole ==
    \/ ArriveWithRole(1) \/ Middleware(1) \/ ProtectedSteps(1)
    \/ ArriveRoleChange(2)
    \/ PutUser_Find(2) \/ PutUser_FindEmail(2) \/ PutUser_Update(2)

SpecRole == Init /\ [][NextRole]_vars

-----------------------------------------------------------------------------
(* Store failures: an awaited store call rejects with an error of the driver *)

\* An error that is no ValidationError, no CastError and no duplicate key
\* error: the store cannot be reached.
StoreError == [name |-> "MongoNetworkError", message |-> "connection timed out"]

\* The message of the last branch of the catch of each handler.
GenericMessage(op) ==
    CASE op = "GET /users" -> "Failed to fetch users"
      [] op = "POST /users" -> "Failed to create user"
      [] op = "PUT /users" -> "Failed to update user"
      [] op = "DELETE /users" -> "Failed to delete user"
      [] op = "POST /donations" -> "Failed to create donation"
      [] op = "PUT /donations" -> "Failed to update donation"
      [] op = "DELETE /donations" -> "Failed to delete donation"
      [] op = "GET /donations/donor" -> "Failed to fetch donations"
      [] op = "POST /projects" -> "Failed to create project"
      [] op = "PUT /projects" -> "Failed to update project"
      [] op = "DELETE /projects" -> "Failed to delete project"
      [] op = "GET /projects/manager" -> "Failed to fetch projects"
      [] op = "POST /events" -> "Failed to create event"
      [] op = "PUT /events" -> "Failed to update event"
      [] op = "DELETE /events" -> "Failed to delete event"
      [] op = "GET /events/organizer" -> "Failed to fetch events"

\* The store calls a handler awaits after its first one, by the position of
\* the request.
Awaits(op) ==
    CASE op = "POST /users" -> [save |-> "User.save"]
      [] op = "PUT /users" ->
           [findEmail |-> "User.findOne", update |-> "User.findByIdAndUpdate"]
      [] op = "POST /donations" ->
           [save |-> "Donation.save", populate |-> "Donation.findById"]
      [] op = "PUT /donations" -> [update |-> "Donation.findByIdAndUpdate"]
      [] op = "GET /donations/donor" -> [find |-> "Donation.find"]
      [] op = "POST /projects" ->
           [save |-> "Project.save", populate |-> "Project.findById"]
      [] op = "PUT /projects" -> [update |-> "Project.findByIdAndUpdate"]
      [] op = "GET /projects/manager" -> [find |-> "Project.find"]
      [] op = "POST /events" -> [save |-> "Event.save", populate |-> "Event.findById"]
      [] op = "PUT /events" -> [update |-> "Event.findByIdAndUpdate"]
      [] op = "GET /events/organizer" -> [find |-> "Event.find"]

\* The first step of the handler of q when the store answers.
Answered(q) ==
    CASE q.op = "POST /users" -> UserChecked(q, users)
      [] q.op = "PUT /users" -> UserFound(q, users)
      [] q.op = "POST /donations" -> DonationChecked(q, users, now)
      [] q.op = "PUT /donations" -> DonationFound(q, donations)
      [] q.op = "POST /projects" -> ProjectChecked(q, users, now)
      [] q.op = "PUT /projects" -> ProjectFound(q, projects)
      [] q.op = "POST /events" -> EventChecked(q, users, now)
      [] q.op = "PUT /events" -> EventFound(q, events)
      [] q.op \in Lists -> ListChecked(q, users)

\* The ValidationError that the write of q raises before the store is asked.
Invalid(q) ==
    CASE q.op \in {"POST /users", "PUT /users"} -> UserErrors(q.doc)
      [] q.op = "POST /donations" -> DonationErrors(q.doc)
      [] q.op = "PUT /donations" -> DonationUpdateErrors(q.doc)
      [] q.op = "POST /projects" -> ProjectErrors(q.doc)
      [] q.op = "PUT /projects" -> ProjectUpdateErrors(q.doc)
      [] q.op = "POST /events" -> EventErrors(q.doc, now)
      [] q.op = "PUT /events" -> EventUpdateErrors(q.doc, now)

\* The handlers that pass req.params.id to the store unchecked: a malformed
\* id raises a CastError before the store is asked.
CastsId == {"PUT /users", "PUT /donations", "PUT /projects", "PUT /events"}

\* The step of request q gets as far as asking the store: the token is
\* verified, the checks before the await pass, the document is valid.
Reaches(q) ==
    CASE q.pc = "auth" -> q.token.kind # "none" /\ JwtVerify(q.token) = "ok"
      [] q.pc = "handler" ->
           /\ Answered(q).calls # q.calls
           /\ q.op \in CastsId => IsValidObjectId(q.id)
      [] q.pc \in {"save", "update"} -> Invalid(q) = << >>
      [] q.pc \in {"populate", "find", "findEmail"} -> TRUE
      [] OTHER -> FALSE

\* The store call that request q awaits.
Awaited(q) ==
    CASE q.pc = "auth" -> "auth: User.findById"
      [] q.pc = "handler" -> CHOOSE c \in Answered(q).calls \ q.calls : TRUE
      [] OTHER -> Awaits(q.op)[q.pc]

\* The awaited store call of the request in slot r rejects: control passes
\* to the catch of authenticateToken or of the handler, which answers 500.
StoreFails(r) ==
    /\ ~Free(r)
    /\ Reaches(req[r])
    /\ LET q == Called(req[r], Awaited(req[r]))
           c == Caught(StoreError,
                       IF q.pc = "auth" THEN "Authentication failed"
                       ELSE GenericMessage(q.op))
       IN  req' = [req EXCEPT ![r] =
                     [q EXCEPT !.pc = "done", !.status = c.status, !.msg = c.msg,
                               !.thrown = c.thrown]]
    /\ UNCHANGED <<users, donations, projects, events, nextId, now, direct>>

\* User.find(): the users in the order of their identifiers 1..n.
RECURSIVE FindAll(_, _)
FindAll(coll, n) ==
    IF n = 0 THEN << >>
    ELSE FindAll(coll, n - 1) \o (IF n \in DOMAIN coll THEN <<coll[n]>> ELSE << >>)

\* router.get('/') of users.
GetUsers ==
    /\ direct' = Direct("GET /users", BadId, 200, << >>,
                        Items(FindAll(users, nextId.user - 1)))
    /\ UNCHANGED <<users, donations, projects, events, nextId, now, req>>

\* The store call of a handler with a single one rejects.
DirectFails(op, id) ==
    /\ op # "GET /users" => IsValidObjectId(id)
    /\ LET c == Caught(StoreError, GenericMessage(op))
       IN  direct' = [Direct(op, id, c.status, c.msg, Null) EXCEPT !.thrown = c.thrown]
    /\ UNCHANGED <<users, donations, projects, events, nextId, now, req>>

\* One request that every handler accepts.
ArriveFault(r) ==
    \/ ArriveGood(r)
    \/ Arrive(r, "PUT /donations", 1, [status |-> "completed"], NoToken)
    \/ Arrive(r, "PUT /projects", 1, [budget |-> 30], AdminToken)
    \/ Arrive(r, "PUT /events", 1, [status |-> "cancelled"], AdminToken)
    \/ \E op \in Lists : Arrive(r, op, Owner, NoBody, NoToken)
    \/ Arrive(r, "POST /users", BadId, FullUser(Str("b")), NoToken)
    \/ Arrive(r, "PUT /users", Bystander,
              [SeedUsers[Bystander] EXCEPT !.role = "volunteer"], NoToken)

NextFault ==
    \/ \E r \in Slots :
          \/ ArriveFault(r) \/ Middleware(r)
          \/ CreateSteps(r) \/ UpdateSteps(r) \/ ListSteps(r) \/ UserSteps(r)
          \/ StoreFails(r)
    \/ GetUsers
    \/ DirectFails("GET /users", BadId)
    \/ \E op \in {"DELETE /users", "DELETE /donations", "DELETE /projects",
                  "DELETE /events"} : DirectFails(op, 1)

SpecFault == Init /\ [][NextFault]_vars

-----------------------------------------------------------------------------
(* The whole program: every operation, with all the inputs above *)

Next ==
    \/ NextCreate \/ NextAuth \/ NextUpdate \/ NextTouch \/ NextUsers \/ NextDelete
    \/ NextList \/ NextRange \/ NextOptional \/ NextPair
    \/ NextRace \/ NextRole \/ NextFault

Spec == Init /\ [][Next]_vars

-----------------------------------------------------------------------------
(* Claims about the middleware chain, checked under SpecAuth *)

\* The store calls that the resource handler of request q has issued.
HandlerCalls(q) == q.calls \ {"auth: User.findById"}

\* The resource handler of request q has been entered.
InHandler(q) == q.pc \in {"handler", "save", "populate", "update"} \/ HandlerCalls(q) # {}

C1_State ==
    \A r \in Slots :
        LET q == req[r]
        IN  q.op \in Protected =>
              /\ InHandler(q) =>
                    /\ q.nexts = 2
                    /\ q.user # NoUser
                    /\ q.user.role \in {"admin", "volunteer"}
              /\ (q.pc = "done" /\ q.token = NoToken) =>
                    q.status = 401 /\ q.nexts = 0 /\ HandlerCalls(q) = {}
              /\ (q.pc = "done" /\ q.user # NoUser /\ q.user.role = "donor") =>
                    q.status = 403 /\ q.nexts = 1 /\ HandlerCalls(q) = {}

C1_Step ==
    (projects' # projects \/ events' # events) =>
        \E r \in Slots :
            /\ req[r].op \in Protected
            /\ req[r].nexts = 2
            /\ req[r].user # NoUser
            /\ req[r].user.role \in {"admin", "volunteer"}
            /\ req'[r].calls # req[r].calls

\* C1: on POST and PUT of /projects and /events the resource handler runs,
\* and projects or events change, only for a request that passed
\* authentication with the role admin or volunteer; a request without a token
\* ends with 401 and one with a donor's token with 403, its handler never
\* entered and no store call of the handler issued.
C1_HandlerOnlyAfterAuth == []C1_State /\ [][C1_Step]_vars

\* Requests of a donor and requests without a token have been refused, each
\* with a body that the handler would accept.
C1_Witness ==
    \E r \in Slots :
        /\ req[r].pc = "done"
        /\ req[r].op = "POST /projects"
        /\ req[r].body = GoodProject(Owner)
        /\ req[r].user # NoUser
        /\ req[r].user.role = "donor"
        /\ req[r].status = 403
        /\ projects = << >>

\* C2: every authentication failure (the request ended inside
\* authenticateToken) is answered with 401.
C2_AuthFailure401 ==
    \A r \in Slots :
        (req[r].pc = "done" /\ req[r].op \in Protected /\ req[r].nexts = 0)
            => req[r].status = 401

C4_StaleTokenRejected ==
    [][/\ \A u \in 1..(nextId.user - 1) :
            u \notin DOMAIN users => u \notin DOMAIN users'
       /\ \A r \in Slots :
            (/\ req[r].pc = "auth"
             /\ req'[r].pc # "auth"
             /\ req[r].token.kind = "valid"
             /\ req[r].token.userId \notin DOMAIN users)
                => /\ req'[r].pc = "done"
                   /\ req'[r].status = 401
                   /\ req'[r].nexts = 0
                   /\ HandlerCalls(req'[r]) = {}]_vars

\* DELETE /users/:id succeeded for an admin, and the admin's token was then
\* refused.
C4_Witness ==
    \E r \in Slots :
        /\ req[r].pc = "done"
        /\ req[r].token = AdminToken
        /\ req[r].status = 401
        /\ req[r].msg = <<"User no longer exists">>
        /\ direct.op = "DELETE /users"
        /\ direct.id = AdminToken.userId
        /\ direct.status = 200

-----------------------------------------------------------------------------
(* Claims about PUT, checked under SpecUpdate and SpecTouch *)

Updates == {"PUT /donations", "PUT /projects", "PUT /events"}

\* The step of slot r is a PUT's findByIdAndUpdate that answers 200 with the
\* updated document.
Updating(r) ==
    /\ req[r].op \in Updates
    /\ req[r].pc = "update"
    /\ req'[r].pc = "done"
    /\ req'[r].status = 200
    /\ req'[r].data # Null

\* The collection that a PUT with operation op changes.
Target(op) ==
    CASE op = "PUT /donations" -> donations
      [] op = "PUT /projects" -> projects
      [] op = "PUT /events" -> events

\* The value a handler stores for field f of body b.
Stored(b, f) == IF f \in {"name", "description", "location", "projectId"}
                 THEN Trim(b[f]) ELSE b[f]

\* C9: a successful PUT changes exactly the fields of its body: each gets the
\* (trimmed) value supplied, every other field of the document, and every
\* other document, stays as it was.
C9_PutFrame ==
    [][\A r \in Slots :
         Updating(r) =>
            LET q == req[r]
                before == Target(q.op)[q.id]
                after == Target(q.op)'[q.id]
            IN  /\ DOMAIN after = DOMAIN before \cup DOMAIN q.body
                /\ \A f \in DOMAIN before \ DOMAIN q.body : after[f] = before[f]
                /\ \A f \in DOMAIN q.body : after[f] = Stored(q.body, f)
                /\ \A i \in DOMAIN Target(q.op) \ {q.id} :
                      Target(q.op)'[i] = Target(q.op)[i]
                /\ DOMAIN Target(q.op)' = DOMAIN Target(q.op)
                /\ \A op \in Updates \ {q.op} : Target(op)' = Target(op)
                /\ users' = users]_vars

\* PUT /projects/:id with only a budget has changed a project whose status an
\* earlier PUT had set.
C9_Witness ==
    \E r \in Slots :
        /\ req[r].pc = "done"
        /\ req[r].op = "PUT /projects"
        /\ req[r].body = [budget |-> 0]
        /\ req[r].status = 200
        /\ 1 \in DOMAIN projects
        /\ projects[1].budget = 0
        /\ projects[1].status = "active"
        /\ projects[1].name = Str("n")

\* C10: a successful PUT refreshes updatedAt.  Stated for the PUTs that come
\* after the clock has advanced past the document's updatedAt: the stored
\* updatedAt is then strictly greater than before.
C10_PutRefreshesUpdatedAt ==
    [][\A r \in Slots :
         (Updating(r) /\ now > Target(req[r].op)[req[r].id].updatedAt)
            => Target(req[r].op)'[req[r].id].updatedAt
                  > Target(req[r].op)[req[r].id].updatedAt]_vars

-----------------------------------------------------------------------------
(* Claims about /users, checked under SpecUsers *)

UserWrites == {"POST /users", "PUT /users"}

\* C11: PUT /users/:id with only some of name, email and role, each valid,
\* is accepted (200) for a user that exists.
C11_PartialUserUpdate ==
    \A r \in UserSlots :
        (/\ req[r].op = "PUT /users"
         /\ req[r].pc = "done"
         /\ req[r].id \in DOMAIN users
         /\ req[r].body \in {[name |-> Str("x")], [email |-> Str("b")], [role |-> "admin"]}
         /\ ~EmailTaken(users, Str("b"), req[r].id))
            => req[r].status = 200

\* C12: a PUT on a user, donation, project or event that has passed the
\* middleware of its route and whose well-formed id names no stored entity
\* ends with 404, whatever its body is.
C12_AbsentTarget404 ==
    \A r \in Slots \cup UserSlots :
        (/\ req[r].op \in Updates \cup {"PUT /users"}
         /\ req[r].pc = "done"
         /\ req[r].id = NeverUser
         /\ req[r].status \notin {401, 403})
            => req[r].status = 404

\* Stored emails are lower-cased.
LowerCased(us) == \A u \in DOMAIN us : us[u].email = ToLowerCase(us[u].email)

\* No two users of us have the same email when case is ignored.
DistinctEmails(us) ==
    \A u, v \in DOMAIN us :
        u # v => ToLowerCase(us[u].email) # ToLowerCase(us[v].email)

\* C17: in every state the stored emails are lower-cased and no two users
\* have the same email when case is ignored, whatever the interleaving of
\* the creates and updates of users.
C17_UniqueEmails == LowerCased(users) /\ DistinctEmails(users)

\* Two concurrent requests supplied the same email in different case: one
\* wrote it lower-cased, the other met the store's duplicate on its write.
C17_Witness ==
    /\ \E u \in DOMAIN users \ DOMAIN SeedUsers : users[u].email = Str("b")
    /\ \E r \in UserSlots :
          /\ req[r].pc = "done"
          /\ req[r].body = FullUser(Str("B"))
          /\ req[r].msg = <<"Email already exists">>

\* C18: no create or update of a user is answered with 500.
C18_CollisionNever500 ==
    \A r \in UserSlots :
        (req[r].op \in UserWrites /\ req[r].pc = "done") => req[r].status # 500

-----------------------------------------------------------------------------
(* Claims about DELETE, checked under SpecDelete *)

\* The collection the handler of a DELETE with operation op deletes from.
DeleteTarget(op) ==
    CASE op = "DELETE /users" -> users
      [] op = "DELETE /donations" -> donations
      [] op = "DELETE /projects" -> projects
      [] op = "DELETE /events" -> events

\* The identifiers the driver has generated for the collection of op.
Generated(op) ==
    CASE op = "DELETE /users" -> 1..(nextId.user - 1)
      [] op = "DELETE /donations" -> 1..(nextId.donation - 1)
      [] op = "DELETE /projects" -> 1..(nextId.project - 1)
      [] op = "DELETE /events" -> 1..(nextId.event - 1)

DeleteRoutes == {"DELETE /users", "DELETE /donations", "DELETE /projects", "DELETE /events"}

\* C13: a DELETE of a well-formed id removes the entity if it is stored and
\* answers 200; if it is not stored (deleted before, or never there) it
\* answers 404 and changes nothing; and an entity that was deleted is never
\* in the store again.
C13_DeleteHardAndIdempotent ==
    [][/\ \A op \in DeleteRoutes, id \in 1..NeverUser :
            (direct' # direct /\ direct'.op = op /\ direct'.id = id) =>
                IF id \in DOMAIN DeleteTarget(op)
                THEN direct'.status = 200 /\ id \notin DOMAIN DeleteTarget(op)'
                ELSE /\ direct'.status = 404
                     /\ UNCHANGED <<users, donations, projects, events>>
       /\ \A op \in DeleteRoutes :
            \A id \in Generated(op) :
                id \notin DOMAIN DeleteTarget(op) => id \notin DOMAIN DeleteTarget(op)']_vars

\* A donation was created and deleted, and a later DELETE of its id was
\* answered with 404.
C13_Witness ==
    /\ direct.op = "DELETE /donations"
    /\ direct.id = 1
    /\ direct.status = 404
    /\ nextId.donation > 1
    /\ 1 \notin DOMAIN donations

\* C14: a DELETE changes no document but the one it deletes: the other
\* collections and the other documents of its collection stay as they are.
C14_NoCascade ==
    [][\A op \in DeleteRoutes, id \in BadId..NeverUser :
          (direct' # direct /\ direct'.op = op /\ direct'.id = id) =>
              /\ \A o \in DeleteRoutes \ {op} : DeleteTarget(o)' = DeleteTarget(o)
              /\ \A i \in DOMAIN DeleteTarget(op) \ {id} :
                    /\ i \in DOMAIN DeleteTarget(op)'
                    /\ DeleteTarget(op)'[i] = DeleteTarget(op)[i]]_vars

\* A user was deleted while a donation that names the user as its donor is
\* stored.
C14_Witness ==
    /\ direct.op = "DELETE /users"
    /\ direct.id = Owner
    /\ direct.status = 200
    /\ Owner \notin DOMAIN users
    /\ \E d \in DOMAIN donations : donations[d].donorId = Owner

-----------------------------------------------------------------------------
(* Claims about ranges, checked under SpecRange *)

\* C15: every stored event that has maxAttendees satisfies
\* 0 <= currentAttendees <= maxAttendees.
C15_AttendeesWithinMax ==
    \A e \in DOMAIN events :
        Has(events[e], "maxAttendees") =>
            /\ 0 <= events[e].currentAttendees
            /\ events[e].currentAttendees <= events[e].maxAttendees

\* C16: every stored project has its endDate after its startDate.
C16_EndAfterStart ==
    \A p \in DOMAIN projects : projects[p].endDate > projects[p].startDate

-----------------------------------------------------------------------------
(* Claims about references and the lists by relation, checked under SpecList *)

\* Request q is past the middleware of its route.
PastMiddleware(q) == q.op \in Protected => q.nexts = 2

\* Request q carries a malformed reference: in its body for a create, in its
\* path for a list.
MalformedRef(q) ==
    \/ /\ q.op \in Creates
       /\ Has(q.body, RefField(q.op))
       /\ ~IsValidObjectId(q.body[RefField(q.op)])
    \/ /\ q.op \in Lists
       /\ ~IsValidObjectId(q.id)

\* C19: a create or a list by relation whose donorId / managerId /
\* organizerId is malformed, once past the middleware of its route, ends
\* with 400 in its first step: the handler issues no store call, neither the
\* lookup of the reference nor a query or write on the resource.
C19_MalformedRefNoLookup ==
    \A r \in Slots :
        (MalformedRef(req[r]) /\ PastMiddleware(req[r])) =>
            /\ HandlerCalls(req[r]) = {}
            /\ req[r].pc \in {"handler", "done"}
            /\ req[r].pc = "done" => req[r].status = 400

\* POST /projects by an admin with a malformed managerId, all else valid, was
\* refused with 400 after the lookup of the principal only.
C19_Witness ==
    \E r \in Slots :
        /\ req[r].pc = "done"
        /\ req[r].op = "POST /projects"
        /\ req[r].body = BadRef(GoodProject(Owner), "managerId")
        /\ req[r].status = 400
        /\ req[r].msg = <<"Invalid manager ID format. Must be a valid ObjectId.">>
        /\ req[r].calls = {"auth: User.findById"}

\* The collection a list handler queries, its query call, and the reference
\* it queries by.
ListTarget(op) ==
    CASE op = "GET /donations/donor" -> donations
      [] op = "GET /projects/manager" -> projects
      [] op = "GET /events/organizer" -> events

ListQuery(op) ==
    CASE op = "GET /donations/donor" -> "Donation.find"
      [] op = "GET /projects/manager" -> "Project.find"
      [] op = "GET /events/organizer" -> "Event.find"

ListPath(op) ==
    CASE op = "GET /donations/donor" -> "donorId"
      [] op = "GET /projects/manager" -> "managerId"
      [] op = "GET /events/organizer" -> "organizerId"

\* C20: a list by relation with a well-formed id that names no User ends with
\* 404 and without a query of the resource collection; with the id of a User
\* it goes on to the query, which answers 200 with as many documents as
\* match: the empty array when there are none.
C20_ListAbsentVersusEmpty ==
    [][\A r \in Slots :
         LET q == req[r]
         IN  q.op \in Lists =>
               /\ (q.pc = "handler" /\ req'[r].pc # "handler"
                   /\ IsValidObjectId(q.id) /\ q.id \notin DOMAIN users)
                     => /\ req'[r].pc = "done"
                        /\ req'[r].status = 404
                        /\ req'[r].msg = <<ListMessages(q.op).absent>>
                        /\ ListQuery(q.op) \notin req'[r].calls
               /\ (q.pc = "handler" /\ req'[r].pc # "handler" /\ q.id \in DOMAIN users)
                     => req'[r].pc = "find"
               /\ (q.pc = "find" /\ req'[r].pc # "find")
                     => /\ req'[r].pc = "done"
                        /\ req'[r].status = 200
                        /\ Len(req'[r].data.items)
                             = Cardinality({i \in DOMAIN ListTarget(q.op) :
                                              ListTarget(q.op)[i][ListPath(q.op)] = q.id})]_vars

\* The donations of a user who has none were listed while another user's
\* donation is stored: 200 and the empty array.
C20_Witness ==
    \E r \in Slots :
        /\ req[r].pc = "done"
        /\ req[r].op = "GET /donations/donor"
        /\ req[r].id = Bystander
        /\ req[r].status = 200
        /\ req[r].data = Items(<< >>)
        /\ donations # << >>

-----------------------------------------------------------------------------
(* Claims about who may write projects and events, checked under SpecDelete *)

\* C23: projects and events are created, changed and removed only by the
\* step of a request whose authenticated principal has the role admin or
\* volunteer: a request of a donor and a request without a bearer token
\* leave both collections as they are, DELETE /projects/:id and
\* DELETE /events/:id included.
C23_WritesNeedRole ==
    [][(projects' # projects \/ events' # events) =>
          \E r \in Slots :
              /\ req[r].token # NoToken
              /\ req[r].user # NoUser
              /\ req[r].user.role \in {"admin", "volunteer"}
              /\ req'[r].calls # req[r].calls]_vars

-----------------------------------------------------------------------------
(* Claims about the timestamps of a create, checked under SpecTouch *)

\* The collection the handler of a create with operation op writes to.
Written(op) ==
    CASE op = "POST /donations" -> donations
      [] op = "POST /projects" -> projects
      [] op = "POST /events" -> events

\* C25: the document a POST handler writes has createdAt equal to updatedAt.
C25_CreatedEqualsUpdated ==
    [][\A r \in Slots :
         (req[r].op \in Creates /\ req[r].pc = "save" /\ req'[r].pc = "populate")
            => Written(req[r].op)'[req'[r].saved].createdAt
                  = Written(req[r].op)'[req'[r].saved].updatedAt]_vars

-----------------------------------------------------------------------------
(* Claims about the required fields of a create, checked under SpecCreate *)

\* The required fields of a create that are strings, and the other ones.
RequiredStrings(op) ==
    CASE op = "POST /donations" -> {"projectId"}
      [] op = "POST /projects" -> {"name", "description"}
      [] op = "POST /events" -> {"name", "description", "location"}

RequiredOthers(op) ==
    CASE op = "POST /donations" -> {"amount", "donorId"}
      [] op = "POST /projects" ->
           {"startDate", "endDate", "budget", "targetAmount", "managerId", "category"}
      [] op = "POST /events" ->
           {"date", "endDate", "organizerId", "type", "registrationDeadline"}

\* A required field of the create q is absent, or is a string that is empty
\* or blank.
LacksRequired(q) ==
    \/ \E f \in RequiredStrings(q.op) : ~Has(q.body, f) \/ Trim(q.body[f]) = << >>
    \/ \E f \in RequiredOthers(q.op) : ~Has(q.body, f)

\* C26: a create in which a required field is absent, empty or blank ends,
\* once past the middleware of its route, with 400 and without a write.
C26_MissingRequired400 ==
    \A r \in Slots :
        (/\ req[r].op \in Creates
         /\ req[r].pc = "done"
         /\ PastMiddleware(req[r])
         /\ LacksRequired(req[r]))
            => req[r].status = 400 /\ req[r].saved = BadId

-----------------------------------------------------------------------------
(* Claims about the fields of a created document, checked under SpecOptional *)

\* The paths of the schema that a create body can carry.
SchemaFields(op) ==
    CASE op = "POST /donations" ->
           {"amount", "donorId", "projectId", "description", "status"}
      [] op = "POST /projects" ->
           {"name", "description", "startDate", "endDate", "budget", "targetAmount",
            "status", "managerId", "location", "category"}
      [] op = "POST /events" ->
           {"name", "description", "date", "endDate", "location", "organizerId",
            "type", "status", "maxAttendees", "currentAttendees",
            "registrationDeadline", "entryFee"}

\* The defaults of the optional fields.
Defaults(op) ==
    CASE op = "POST /donations" -> [status |-> "pending"]
      [] op = "POST /projects" -> [status |-> "planning"]
      [] op = "POST /events" ->
           [status |-> "planned", currentAttendees |-> 0, entryFee |-> 0]

\* Document d has the fields of body b, trimmed, and the defaults of the
\* optional fields that b omits; the reference field is left to the caller.
AsSupplied(d, b, op) ==
    /\ \A f \in (DOMAIN b \cap SchemaFields(op)) \ {RefField(op)} :
          Has(d, f) /\ d[f] = Stored(b, f)
    /\ \A f \in DOMAIN Defaults(op) \ DOMAIN b :
          Has(d, f) /\ d[f] = Defaults(op)[f]

\* C22: the document an accepted create stores, and the one it returns, has
\* each field of the body with the (trimmed) value supplied, an optional
\* field such as a donation's status included, and the default for each
\* optional field the body omits.
C22_StoredAsSupplied ==
    [][\A r \in Slots :
         LET q == req[r]
         IN  q.op \in Creates =>
               /\ (q.pc = "save" /\ req'[r].pc = "populate") =>
                     /\ AsSupplied(Written(q.op)'[req'[r].saved], q.body, q.op)
                     /\ Written(q.op)'[req'[r].saved][RefField(q.op)]
                           = q.body[RefField(q.op)]
               /\ (q.pc = "populate" /\ req'[r].pc = "done") =>
                     /\ req'[r].status = 201
                     /\ AsSupplied(req'[r].data, q.body, q.op)]_vars

-----------------------------------------------------------------------------
(* Claims about concurrent creates, checked under SpecPair *)

\* C27: of two creates in flight together that name the same stored user,
\* each ends with 201 and returns the document it wrote; each write inserts
\* under an identifier no document has and leaves every other document as
\* it is, so two creates leave two documents with different identifiers.
C27_State ==
    /\ \A r \in PairSlots :
          LET q == req[r]
          IN  (q.op \in Creates /\ q.pc = "done") =>
                /\ q.status = 201
                /\ q.saved \in DOMAIN Written(q.op)
                /\ Written(q.op)[q.saved][RefField(q.op)] = q.body[RefField(q.op)]
                /\ q.data = Populate(Written(q.op)[q.saved], RefField(q.op), users)
    /\ \A r1, r2 \in PairSlots :
          (/\ r1 # r2
           /\ req[r1].op \in Creates
           /\ req[r1].op = req[r2].op
           /\ req[r1].saved # BadId
           /\ req[r2].saved # BadId)
              => req[r1].saved # req[r2].saved

C27_Step ==
    \A r \in PairSlots :
        (req[r].op \in Creates /\ req[r].pc = "save" /\ req'[r].pc = "populate") =>
            /\ req'[r].saved \notin DOMAIN Written(req[r].op)
            /\ DOMAIN Written(req[r].op)' = DOMAIN Written(req[r].op) \cup {req'[r].saved}
            /\ \A i \in DOMAIN Written(req[r].op) :
                  Written(req[r].op)'[i] = Written(req[r].op)[i]

C27_ConcurrentCreatesBothSucceed == []C27_State /\ [][C27_Step]_vars

\* Two POST /donations were in flight together: the second slot's request
\* wrote its donation first and is still in flight when the first slot's
\* request, which wrote later, has ended with 201.
C27_Witness ==
    /\ req[1].op = "POST /donations"
    /\ req[2].op = "POST /donations"
    /\ req[1].pc = "done"
    /\ req[1].status = 201
    /\ req[2].pc = "populate"
    /\ req[2].saved # BadId
    /\ req[2].saved < req[1].saved
    /\ Cardinality(DOMAIN donations) = 2

-----------------------------------------------------------------------------
(* Claims about updates and deletes of the same document, checked under
   SpecRace *)

\* C28: a PUT on a donation, project or event that is answered with 200
\* carries the updated document, never null.
C28_OkCarriesDocument ==
    \A r \in Slots :
        (req[r].op \in Updates /\ req[r].pc = "done" /\ req[r].status = 200)
            => req[r].data # Null

\* The field of a document of the collection of op that refers to a User.
OwnerField(op) ==
    CASE op = "PUT /donations" -> "donorId"
      [] op = "PUT /projects" -> "managerId"
      [] op = "PUT /events" -> "organizerId"

\* C30: from its creation until its deletion a donation, project or event
\* keeps its identifier, its createdAt and its donorId / managerId /
\* organizerId: no step changes them, a PUT whose body supplies values for
\* them included, and a PUT neither adds nor removes a document.
C30_OwnerAndOriginFixed ==
    [][/\ \A op \in Updates :
            \A i \in DOMAIN Target(op) \cap DOMAIN Target(op)' :
                /\ Target(op)'[i].createdAt = Target(op)[i].createdAt
                /\ Target(op)'[i][OwnerField(op)] = Target(op)[i][OwnerField(op)]
                /\ ~Has(Target(op)'[i], "_id")
       /\ \A r \in Slots :
            (req[r].op \in Updates /\ req'[r] # req[r] /\ ~Free(r)) =>
                \A op \in Updates : DOMAIN Target(op)' = DOMAIN Target(op)]_vars

\* PUT /events/:id with a body that names another organizer, an identifier
\* and a createdAt was answered with 200: the status is the one supplied,
\* the organizer and createdAt are those of the create.
C30_Witness ==
    \E r \in Slots :
        /\ req[r].op = "PUT /events"
        /\ req[r].pc = "done"
        /\ req[r].status = 200
        /\ req[r].body = WithForeign([status |-> "cancelled"], "organizerId")
        /\ 1 \in DOMAIN events
        /\ events[1].status = "cancelled"
        /\ events[1].organizerId = Owner
        /\ events[1].createdAt < 9

-----------------------------------------------------------------------------
(* Claims about roles that change, checked under SpecRole *)

\* A request that passed authentication ended in the role check exactly when
\* the role it was given is donor, and then with 403.
C29_State ==
    \A r \in Slots :
        LET q == req[r]
        IN  (q.op \in Protected /\ q.user # NoUser /\ q.pc # "authz") =>
              IF q.user.role = "donor"
              THEN q.pc = "done" /\ q.status = 403 /\ q.nexts = 1 /\ HandlerCalls(q) = {}
              ELSE q.nexts = 2

\* The lookup of authenticateToken gives the request the role the store
\* holds for the user at that moment.
C29_Step ==
    \A r \in Slots :
        (/\ req[r].op \in Protected
         /\ req[r].pc = "auth"
         /\ req'[r].pc # "auth"
         /\ req[r].token.kind = "valid"
         /\ req[r].token.userId \in DOMAIN users)
            => /\ req'[r].pc = "authz"
               /\ req'[r].user.role = users[req[r].token.userId].role

\* C29: the role check of POST and PUT on /projects and /events uses the
\* role stored for the user when the request is authenticated, not the role
\* the user had when the token was issued: with the stored role donor the
\* request ends with 403 and its handler is not entered, with admin or
\* volunteer it passes.
C29_StoredRoleDecides == []C29_State /\ [][C29_Step]_vars

\* PUT /users/:id made the admin a donor, and a request with the admin's
\* token was then refused with 403.
C29_Witness ==
    /\ users[AdminToken.userId].role = "donor"
    /\ req[2].op = "PUT /users"
    /\ req[2].pc = "done"
    /\ req[2].status = 200
    /\ req[1].token = AdminToken
    /\ req[1].pc = "done"
    /\ req[1].status = 403
    /\ req[1].msg = <<"Admin or volunteer access required">>

-----------------------------------------------------------------------------
(* Claims about failures of the store, checked under SpecFault *)

\* C21: a POST to /users, /donations, /projects or /events that ends with
\* another status than 201 has written no document.
C21_FailedCreateWritesNothing ==
    \A r \in Slots :
        (/\ req[r].op \in Creates \cup {"POST /users"}
         /\ req[r].pc = "done"
         /\ req[r].status # 201)
            => req[r].saved = BadId

\* The generic message of the place where request q caught its error.
GenericOf(q) ==
    IF q.op \in Protected /\ q.nexts = 0 THEN "Authentication failed"
    ELSE GenericMessage(q.op)

C24_State ==
    /\ \A r \in Slots :
          LET q == req[r]
          IN  /\ q.pc = "done" <=> q.status # 0
              /\ q.pc # "done" => q.msg = << >> /\ q.data = Null /\ q.thrown = Null
              /\ q.thrown # Null =>
                    /\ q.status = 500
                    /\ q.msg = <<GenericOf(q)>>
                    /\ q.msg # <<q.thrown.message>>
                    /\ q.data = Null
    /\ direct.thrown # Null =>
          /\ direct.status = 500
          /\ direct.msg = <<GenericMessage(direct.op)>>
          /\ direct.msg # <<direct.thrown.message>>
          /\ direct.data = Null

C24_Step ==
    \A r \in Slots :
        req[r].pc = "done" =>
            \/ req'[r] = req[r]
            \/ req'[r].status = 0 /\ req'[r].calls = {} /\ req'[r].thrown = Null

\* C24: a request has a response exactly when it has ended, the response of
\* an ended request is never replaced (its slot only takes a new request),
\* and a request whose store call failed with an error that is no validation
\* error, no malformed identifier and no duplicate key has the response 500
\* with the fixed message of its handler, not the text of the error.
C24_OneResponseGeneric500 == []C24_State /\ [][C24_Step]_vars

\* GET /users was answered with 500 'Failed to fetch users' after User.find
\* failed, and a POST /donations whose store call failed has ended with 500
\* and the message of its handler.
C24_Witness ==
    /\ direct.op = "GET /users"
    /\ direct.thrown = StoreError
    /\ direct.status = 500
    /\ direct.msg = <<"Failed to fetch users">>
    /\ \E r \in Slots :
          /\ req[r].op = "POST /donations"
          /\ req[r].pc = "done"
          /\ req[r].thrown = StoreError
          /\ req[r].msg = <<"Failed to create donation">>

====
